---- MODULE Spec2Model ----
(***************************************************************************)
(* Traceability Explorer (src/app.py): the GET /api/audit proxy, its       *)
(* pagination controller, the event normaliser and the three enrichment    *)
(* stages (Control-Center bulk, Runs, Jobs).                               *)
(*                                                                         *)
(* Representation.                                                         *)
(*  - A Python str is a sequence of one-character strings, so lower(),     *)
(*    strip(), replace() and `in` are computed character by character.     *)
(*  - A JSON value is a tagged record: JNull, JBool, JNum, JStr, JList,    *)
(*    JDict.  A dict is the sequence of its <<key, value>> items in        *)
(*    insertion order (Python dicts iterate in insertion order).           *)
(*  - A number is held in fixed point, n + m/1000 with 0 <= m < 1000, so   *)
(*    that one division by 1000 (ms -> s) is exact.                        *)
(*  - Event timestamps are counted in units of 86400 (one day of seconds), *)
(*    which keeps 1e12 and the datetime range inside TLC's integers.       *)
(*  - A list of events is held run-length encoded: the item [item |-> e,   *)
(*    n |-> k] stands for k consecutive copies of e.  Every list operation *)
(*    of the source (len, extend, the per-event loops) is computed on that *)
(*    encoding.                                                            *)
(***************************************************************************)
EXTENDS Integers, Sequences, FiniteSets, TLC

VARIABLES
    cfg,            \* module-level configuration read from the environment
    req,            \* the inbound request: query parameters, credential outcome
    pc,             \* position inside audit()
    path_i,         \* index into paths_to_try of the next path to try
    working_path,   \* working_path of audit(), NoPath while None
    last_status,    \* last_status of audit(), 0 while None
    last_err,       \* last_err of audit(), JNull while None
    page_limit,     \* page_limit of audit()
    offset,         \* offset of audit()
    raw_len,        \* len(raw_events) of the page parsed last
    all_events,     \* all_events of audit(); the events under enrichment
    calls,          \* upstream calls issued so far, in order
    response,       \* the response of audit(), kind "none" until it returns
    up,             \* enrichment exchanges: received so far, or held fixed (stage specification)
    last_stage,     \* enrichment stage applied last (stage specification)
    before,         \* all_events before the enrichment stage applied last
    raw_in,         \* raw event handed to _normalize_audit_event, body handed to the sanitiser
    norm_out        \* its outcome (normaliser specification)

vars == <<cfg, req, pc, path_i, working_path, last_status, last_err, page_limit, offset,
          raw_len, all_events, calls, response, up, last_stage, before,
          raw_in, norm_out>>

(***************************************************************************)
(* String literals of the source.                                          *)
(***************************************************************************)
s_actor == <<"a", "c", "t", "o", "r">>
s_action == <<"a", "c", "t", "i", "o", "n">>
s_in == <<"i", "n">>
s_targets == <<"t", "a", "r", "g", "e", "t", "s">>
s_entity == <<"e", "n", "t", "i", "t", "y">>
s_affecting == <<"a", "f", "f", "e", "c", "t", "i", "n", "g">>
s_entityType == <<"e", "n", "t", "i", "t", "y", "T", "y", "p", "e">>
s_name == <<"n", "a", "m", "e">>
s_id == <<"i", "d">>
s_metadata == <<"m", "e", "t", "a", "d", "a", "t", "a">>
s_customAttributes == <<"c", "u", "s", "t", "o", "m", "A", "t", "t", "r", "i", "b", "u", "t", "e", "s">>
s_attributes == <<"a", "t", "t", "r", "i", "b", "u", "t", "e", "s">>
s_properties == <<"p", "r", "o", "p", "e", "r", "t", "i", "e", "s">>
s_key == <<"k", "e", "y">>
s_attribute == <<"a", "t", "t", "r", "i", "b", "u", "t", "e">>
s_value == <<"v", "a", "l", "u", "e">>
s_statuses == <<"s", "t", "a", "t", "u", "s", "e", "s">>
s_stageTime == <<"s", "t", "a", "g", "e", "T", "i", "m", "e">>
s_environment == <<"e", "n", "v", "i", "r", "o", "n", "m", "e", "n", "t">>
s_startedBy == <<"s", "t", "a", "r", "t", "e", "d", "B", "y">>
s_hardwareTier == <<"h", "a", "r", "d", "w", "a", "r", "e", "T", "i", "e", "r">>
s_completedTime == <<"c", "o", "m", "p", "l", "e", "t", "e", "d", "T", "i", "m", "e">>
s_runStartTime == <<"r", "u", "n", "S", "t", "a", "r", "t", "T", "i", "m", "e">>
s_eventName == <<"e", "v", "e", "n", "t", "N", "a", "m", "e">>
s_using == <<"u", "s", "i", "n", "g">>
s_event == <<"e", "v", "e", "n", "t">>
s_timestamp == <<"t", "i", "m", "e", "s", "t", "a", "m", "p">>
s_userId == <<"u", "s", "e", "r", "I", "d">>
s_username == <<"u", "s", "e", "r", "n", "a", "m", "e">>
s_firstName == <<"f", "i", "r", "s", "t", "N", "a", "m", "e">>
s_lastName == <<"l", "a", "s", "t", "N", "a", "m", "e">>
s_targetType == <<"t", "a", "r", "g", "e", "t", "T", "y", "p", "e">>
s_targetId == <<"t", "a", "r", "g", "e", "t", "I", "d">>
s_targetName == <<"t", "a", "r", "g", "e", "t", "N", "a", "m", "e">>
s_withinProjectId == <<"w", "i", "t", "h", "i", "n", "P", "r", "o", "j", "e", "c", "t", "I", "d">>
s_withinProjectName == <<"w", "i", "t", "h", "i", "n", "P", "r", "o", "j", "e", "c", "t", "N", "a", "m", "e">>
s_traceId == <<"t", "r", "a", "c", "e", "I", "d">>
s_electronicallySigned == <<"e", "l", "e", "c", "t", "r", "o", "n", "i", "c", "a", "l", "l", "y", "S", "i", "g", "n", "e", "d">>
s_command == <<"c", "o", "m", "m", "a", "n", "d">>
s_runCommand == <<"r", "u", "n", "C", "o", "m", "m", "a", "n", "d">>
s_jobRunCommand == <<"j", "o", "b", "R", "u", "n", "C", "o", "m", "m", "a", "n", "d">>
s_commandToRun == <<"c", "o", "m", "m", "a", "n", "d", "T", "o", "R", "u", "n">>
s_commandLine == <<"c", "o", "m", "m", "a", "n", "d", "L", "i", "n", "e">>
s_entrypoint == <<"e", "n", "t", "r", "y", "p", "o", "i", "n", "t">>
s_status == <<"s", "t", "a", "t", "u", "s">>
s_runStatus == <<"r", "u", "n", "S", "t", "a", "t", "u", "s">>
s_executionStatus == <<"e", "x", "e", "c", "u", "t", "i", "o", "n", "S", "t", "a", "t", "u", "s">>
s_currentStatus == <<"c", "u", "r", "r", "e", "n", "t", "S", "t", "a", "t", "u", "s">>
s_data == <<"d", "a", "t", "a">>
s_durationSec == <<"d", "u", "r", "a", "t", "i", "o", "n", "S", "e", "c">>
s_runDurationSec == <<"r", "u", "n", "D", "u", "r", "a", "t", "i", "o", "n", "S", "e", "c">>
s_runDurationSeconds == <<"r", "u", "n", "D", "u", "r", "a", "t", "i", "o", "n", "S", "e", "c", "o", "n", "d", "s">>
s_runDurationInSeconds == <<"r", "u", "n", "D", "u", "r", "a", "t", "i", "o", "n", "I", "n", "S", "e", "c", "o", "n", "d", "s">>
s_computeTier == <<"c", "o", "m", "p", "u", "t", "e", "T", "i", "e", "r">>
s_computeSize == <<"c", "o", "m", "p", "u", "t", "e", "S", "i", "z", "e">>
s_tier == <<"t", "i", "e", "r">>
s_machineSize == <<"m", "a", "c", "h", "i", "n", "e", "S", "i", "z", "e">>
s_hardwareTierName == <<"h", "a", "r", "d", "w", "a", "r", "e", "T", "i", "e", "r", "N", "a", "m", "e">>
s_hardware == <<"h", "a", "r", "d", "w", "a", "r", "e">>
s_environmentName == <<"e", "n", "v", "i", "r", "o", "n", "m", "e", "n", "t", "N", "a", "m", "e">>
s_Environment == <<"E", "n", "v", "i", "r", "o", "n", "m", "e", "n", "t">>
s_environmentRevisionName == <<"e", "n", "v", "i", "r", "o", "n", "m", "e", "n", "t", "R", "e", "v", "i", "s", "i", "o", "n", "N", "a", "m", "e">>
s_environmentDisplayName == <<"e", "n", "v", "i", "r", "o", "n", "m", "e", "n", "t", "D", "i", "s", "p", "l", "a", "y", "N", "a", "m", "e">>
s_runId == <<"r", "u", "n", "I", "d">>
s_Run == <<"R", "u", "n">>
s_executionId == <<"e", "x", "e", "c", "u", "t", "i", "o", "n", "I", "d">>
s_jobId == <<"j", "o", "b", "I", "d">>
s_Job == <<"J", "o", "b">>
s_runType == <<"r", "u", "n", "T", "y", "p", "e">>
s_executionType == <<"e", "x", "e", "c", "u", "t", "i", "o", "n", "T", "y", "p", "e">>
s_workloadType == <<"w", "o", "r", "k", "l", "o", "a", "d", "T", "y", "p", "e">>
s_runFile == <<"r", "u", "n", "F", "i", "l", "e">>
s_filename == <<"f", "i", "l", "e", "n", "a", "m", "e">>
s_runOrigin == <<"r", "u", "n", "O", "r", "i", "g", "i", "n">>
s_source == <<"s", "o", "u", "r", "c", "e">>
s_runcommand == <<"r", "u", "n", "c", "o", "m", "m", "a", "n", "d">>
s_executionstatus == <<"e", "x", "e", "c", "u", "t", "i", "o", "n", "s", "t", "a", "t", "u", "s">>
s_hardwaretier == <<"h", "a", "r", "d", "w", "a", "r", "e", "t", "i", "e", "r">>
s_environmentname == <<"e", "n", "v", "i", "r", "o", "n", "m", "e", "n", "t", "n", "a", "m", "e">>
s_run == <<"r", "u", "n">>
s_runid == <<"r", "u", "n", "i", "d">>
s_jobid == <<"j", "o", "b", "i", "d">>
s_runtype == <<"r", "u", "n", "t", "y", "p", "e">>
s_runfile == <<"r", "u", "n", "f", "i", "l", "e">>
s_runorigin == <<"r", "u", "n", "o", "r", "i", "g", "i", "n">>
s_workspace == <<"w", "o", "r", "k", "s", "p", "a", "c", "e">>
s_job == <<"j", "o", "b">>
s_app == <<"a", "p", "p">>
s_Workspace == <<"W", "o", "r", "k", "s", "p", "a", "c", "e">>
s_App == <<"A", "p", "p">>
s_unknown == <<"u", "n", "k", "n", "o", "w", "n">>
s_Unknown == <<"U", "n", "k", "n", "o", "w", "n">>
s_projectIdentity == <<"p", "r", "o", "j", "e", "c", "t", "I", "d", "e", "n", "t", "i", "t", "y">>
s_projectName == <<"p", "r", "o", "j", "e", "c", "t", "N", "a", "m", "e">>
s_userName == <<"u", "s", "e", "r", "N", "a", "m", "e">>
s_title == <<"t", "i", "t", "l", "e">>
s_environmentDetails == <<"e", "n", "v", "i", "r", "o", "n", "m", "e", "n", "t", "D", "e", "t", "a", "i", "l", "s">>
s_startingUserFullName == <<"s", "t", "a", "r", "t", "i", "n", "g", "U", "s", "e", "r", "F", "u", "l", "l", "N", "a", "m", "e">>
s_hardwareTierId == <<"h", "a", "r", "d", "w", "a", "r", "e", "T", "i", "e", "r", "I", "d">>
s_events == <<"e", "v", "e", "n", "t", "s">>
s_Run_Command == <<"R", "u", "n", " ", "C", "o", "m", "m", "a", "n", "d">>
s_Execution_Status == <<"E", "x", "e", "c", "u", "t", "i", "o", "n", " ", "S", "t", "a", "t", "u", "s">>
s_Run_Duration == <<"R", "u", "n", " ", "D", "u", "r", "a", "t", "i", "o", "n">>
s_Hardware_Tier == <<"H", "a", "r", "d", "w", "a", "r", "e", " ", "T", "i", "e", "r">>
s_Run_Type == <<"R", "u", "n", " ", "T", "y", "p", "e">>
s_Run_File == <<"R", "u", "n", " ", "F", "i", "l", "e">>
s_Run_Origin == <<"R", "u", "n", " ", "O", "r", "i", "g", "i", "n">>

(***************************************************************************)
(* Python str operations.                                                  *)
(***************************************************************************)
LowerChar(c) ==
    CASE c = "A" -> "a" [] c = "B" -> "b" [] c = "C" -> "c" [] c = "D" -> "d"
      [] c = "E" -> "e" [] c = "F" -> "f" [] c = "G" -> "g" [] c = "H" -> "h"
      [] c = "I" -> "i" [] c = "J" -> "j" [] c = "K" -> "k" [] c = "L" -> "l"
      [] c = "M" -> "m" [] c = "N" -> "n" [] c = "O" -> "o" [] c = "P" -> "p"
      [] c = "Q" -> "q" [] c = "R" -> "r" [] c = "S" -> "s" [] c = "T" -> "t"
      [] c = "U" -> "u" [] c = "V" -> "v" [] c = "W" -> "w" [] c = "X" -> "x"
      [] c = "Y" -> "y" [] c = "Z" -> "z" [] OTHER -> c

Min(a, b) == IF a < b THEN a ELSE b
Max(a, b) == IF a > b THEN a ELSE b

\* str.lower()
Lower(s) == [i \in 1..Len(s) |-> LowerChar(s[i])]

IsSpace(c) == c = " "

RECURSIVE LStrip(_)
LStrip(s) == IF s # <<>> /\ IsSpace(Head(s)) THEN LStrip(Tail(s)) ELSE s

RECURSIVE RStrip(_)
RStrip(s) ==
    IF s # <<>> /\ IsSpace(s[Len(s)]) THEN RStrip(SubSeq(s, 1, Len(s) - 1)) ELSE s

\* str.strip()
Strip(s) == RStrip(LStrip(s))

IsKeySeparator(c) == c \in {" ", "_", "-"}
NotKeySeparator(c) == ~IsKeySeparator(c)

\* k.lower() alone
NormKeyLowerOnly(k) == Lower(k)

\* k.lower().replace(" ", "").replace("_", "").replace("-", "")
NormKey(k) == SelectSeq(Lower(k), NotKeySeparator)

\* sub in s
Contains(sub, s) ==
    \E i \in 1..(Len(s) - Len(sub) + 1) : SubSeq(s, i, i + Len(sub) - 1) = sub

\* s.startswith(p)
StartsWith(s, p) == Len(s) >= Len(p) /\ SubSeq(s, 1, Len(p)) = p

(***************************************************************************)
(* JSON values as Python sees them after resp.json().                      *)
(***************************************************************************)
JNull == [t |-> "null"]
JBool(b) == [t |-> "bool", b |-> b]
JNum(n) == [t |-> "num", n |-> n, m |-> 0]
JStr(s) == [t |-> "str", s |-> s]
JList(l) == [t |-> "list", l |-> l]
JDict(d) == [t |-> "dict", d |-> d]
EmptyDict == JDict(<<>>)
EmptyList == JList(<<>>)
EmptyStr == JStr(<<>>)

IsNull(v) == v.t = "null"
IsStr(v) == v.t = "str"
IsDict(v) == v.t = "dict"
IsList(v) == v.t = "list"
\* isinstance(v, (int, float)); bool is a subclass of int
IsNumber(v) == v.t \in {"num", "bool"}

\* truth value of a Python object
Truthy(v) ==
    CASE v.t = "null" -> FALSE
      [] v.t = "bool" -> v.b
      [] v.t = "num"  -> v.n # 0 \/ v.m # 0
      [] v.t = "str"  -> v.s # <<>>
      [] v.t = "list" -> v.l # <<>>
      [] v.t = "dict" -> v.d # <<>>

\* a or b
PyOr(a, b) == IF Truthy(a) THEN a ELSE b

\* number as (n, m): bool counts as 0 / 1
NumN(v) == IF v.t = "bool" THEN (IF v.b THEN 1 ELSE 0) ELSE v.n
NumM(v) == IF v.t = "bool" THEN 0 ELSE v.m
\* a > b on numbers
NumGT(a, b) == NumN(a) > NumN(b) \/ (NumN(a) = NumN(b) /\ NumM(a) > NumM(b))
\* float(v) of a number
ToFloat(v) == [t |-> "num", n |-> NumN(v), m |-> NumM(v)]
\* x / 1000 for an integral x
DivThousand(x) == [t |-> "num", n |-> x \div 1000, m |-> x % 1000]

HasKey(d, k) == \E i \in 1..Len(d) : d[i][1] = k
KeyIndex(d, k) == CHOOSE i \in 1..Len(d) : d[i][1] = k

\* v.get(k) on a dict v
Get(v, k) == IF HasKey(v.d, k) THEN v.d[KeyIndex(v.d, k)][2] ELSE JNull
\* v.get(k, default) on a dict v
GetOr(v, k, default) == IF HasKey(v.d, k) THEN v.d[KeyIndex(v.d, k)][2] ELSE default

\* d[k] = v on the item sequence of a dict: an existing key keeps its place
Put(d, k, v) ==
    IF HasKey(d, k) THEN [d EXCEPT ![KeyIndex(d, k)] = <<k, v>>]
    ELSE Append(d, <<k, v>>)

\* d.update(e) on item sequences
RECURSIVE Update(_, _)
Update(d, e) == IF e = <<>> THEN d ELSE Update(Put(d, Head(e)[1], Head(e)[2]), Tail(e))

(***************************************************************************)
(* Helpers of _normalize_audit_event.                                      *)
(***************************************************************************)
DigitChar(d) ==
    CASE d = 0 -> "0" [] d = 1 -> "1" [] d = 2 -> "2" [] d = 3 -> "3" [] d = 4 -> "4"
      [] d = 5 -> "5" [] d = 6 -> "6" [] d = 7 -> "7" [] d = 8 -> "8" [] d = 9 -> "9"

DigitVal(c) ==
    CASE c = "0" -> 0 [] c = "1" -> 1 [] c = "2" -> 2 [] c = "3" -> 3 [] c = "4" -> 4
      [] c = "5" -> 5 [] c = "6" -> 6 [] c = "7" -> 7 [] c = "8" -> 8 [] c = "9" -> 9

IsDigit(c) == c \in {"0", "1", "2", "3", "4", "5", "6", "7", "8", "9"}

\* str(n) of a non-negative int
RECURSIVE IntToStr(_)
IntToStr(n) == IF n < 10 THEN <<DigitChar(n)>> ELSE Append(IntToStr(n \div 10), DigitChar(n % 10))

\* str(v) / f"{v}" for the values a key or an entityType takes here
PyStr(v) ==
    CASE v.t = "str"  -> v.s
      [] v.t = "null" -> <<"N", "o", "n", "e">>
      [] v.t = "bool" -> IF v.b THEN <<"T", "r", "u", "e">> ELSE <<"F", "a", "l", "s", "e">>
      [] v.t = "num"  -> IntToStr(v.n)
      [] OTHER        -> <<"{", "}">>

\* the items a Python for loop sees: list items, the characters of a str, the keys of a dict
Iter(v) ==
    CASE v.t = "list" -> v.l
      [] v.t = "str"  -> [i \in 1..Len(v.s) |-> JStr(<<v.s[i]>>)]
      [] v.t = "dict" -> [i \in 1..Len(v.d) |-> JStr(v.d[i][1])]
      [] OTHER        -> <<>>

\* iterating v raises TypeError
NotIterable(v) == v.t \in {"null", "bool", "num"}

\* (v or "").lower() raises AttributeError: v is truthy and not a str
LowerRaises(v) == Truthy(v) /\ ~IsStr(v)
\* (v or "").lower()
OrLower(v) == IF Truthy(v) /\ IsStr(v) THEN Lower(v.s) ELSE <<>>

\* the first loop over affecting[] (src/app.py:128-136), acc = [env, hw, hwid, raised]
RECURSIVE AffScan(_, _)
AffScan(items, acc) ==
    IF items = <<>> \/ acc.raised THEN acc
    ELSE LET aff == Head(items) IN
         IF ~IsDict(aff) THEN AffScan(Tail(items), acc)
         ELSE IF LowerRaises(Get(aff, s_entityType)) THEN [acc EXCEPT !.raised = TRUE]
         ELSE LET etype == OrLower(Get(aff, s_entityType)) IN
              IF etype = s_environment /\ ~Truthy(acc.env)
                  THEN AffScan(Tail(items), [acc EXCEPT !.env = Get(aff, s_name)])
              ELSE IF etype = s_hardwaretier /\ ~Truthy(acc.hw)
                  THEN AffScan(Tail(items), [acc EXCEPT !.hw = Get(aff, s_name),
                                                        !.hwid = Get(aff, s_id)])
              ELSE AffScan(Tail(items), acc)

\* one list-form item merged into metadata (src/app.py:155-159)
MergeItem(meta, item) ==
    IF ~IsDict(item) THEN meta
    ELSE LET k == PyOr(PyOr(Get(item, s_key), Get(item, s_name)), Get(item, s_attribute))
             v == Get(item, s_value)
         IN IF Truthy(k) /\ ~IsNull(v) THEN Put(meta, PyStr(k), v) ELSE meta

RECURSIVE MergeItems(_, _)
MergeItems(meta, items) ==
    IF items = <<>> THEN meta ELSE MergeItems(MergeItem(meta, Head(items)), Tail(items))

\* one source merged into metadata (src/app.py:151-159)
MergeSource(meta, source) ==
    CASE IsDict(source) -> Update(meta, source.d)
      [] IsList(source) -> MergeItems(meta, source.l)
      [] OTHER          -> meta

RECURSIVE MergeSources(_, _)
MergeSources(meta, sources) ==
    IF sources = <<>> THEN meta ELSE MergeSources(MergeSource(meta, Head(sources)), Tail(sources))

\* type_counters[etype] after the first i items of affecting[] (src/app.py:169)
TypeCount(items, i, etype) ==
    Cardinality({j \in 1..i : IsDict(items[j]) /\ GetOr(items[j], s_entityType, JStr(s_entity)) = etype})

\* the second loop over affecting[] (src/app.py:163-171), acc = [meta, raised]
RECURSIVE AffExpand(_, _, _)
AffExpand(items, i, acc) ==
    IF i > Len(items) \/ acc.raised THEN acc
    ELSE LET aff == items[i] IN
         IF ~IsDict(aff) THEN AffExpand(items, i + 1, acc)
         ELSE LET etype == GetOr(aff, s_entityType, JStr(s_entity))
                  aname == GetOr(aff, s_name, EmptyStr)
              IN IF etype.t \in {"list", "dict"} THEN [acc EXCEPT !.raised = TRUE]
                 ELSE IF Truthy(aname)
                     THEN AffExpand(items, i + 1,
                            [acc EXCEPT !.meta = Put(acc.meta,
                                PyStr(etype) \o <<"_">> \o IntToStr(TypeCount(items, i, etype)),
                                aname)])
                 ELSE AffExpand(items, i + 1, acc)

\* _meta_lower (src/app.py:174-177): a later key with the same normalised form overwrites
RECURSIVE MetaLower(_, _)
MetaLower(idx, items) ==
    IF items = <<>> THEN idx
    ELSE LET k == Head(items)[1]
             v == Head(items)[2]
         IN IF IsStr(v) /\ Strip(v.s) # <<>>
                THEN MetaLower(Put(idx, NormKey(k), JStr(Strip(v.s))), Tail(items))
            ELSE MetaLower(idx, Tail(items))

\* _first_non_empty returning the value as it came
RECURSIVE FirstNonEmptyUntrimmed(_)
FirstNonEmptyUntrimmed(values) ==
    IF values = <<>> THEN JNull
    ELSE IF IsStr(Head(values)) /\ Strip(Head(values).s) # <<>> THEN Head(values)
    ELSE FirstNonEmptyUntrimmed(Tail(values))

\* _first_non_empty (src/app.py:179-183)
RECURSIVE FirstNonEmpty(_)
FirstNonEmpty(values) ==
    IF values = <<>> THEN JNull
    ELSE IF IsStr(Head(values)) /\ Strip(Head(values).s) # <<>>
        THEN JStr(Strip(Head(values).s))
    ELSE FirstNonEmpty(Tail(values))

\* float(s) succeeds: digits with at most one "." and at most three decimals
RECURSIVE AllDigits(_)
AllDigits(s) == s = <<>> \/ (IsDigit(Head(s)) /\ AllDigits(Tail(s)))

DotIndex(s) == IF \E i \in 1..Len(s) : s[i] = "." THEN CHOOSE i \in 1..Len(s) : s[i] = "." ELSE 0

IntPart(s) == IF DotIndex(s) = 0 THEN s ELSE SubSeq(s, 1, DotIndex(s) - 1)
FracPart(s) == IF DotIndex(s) = 0 THEN <<>> ELSE SubSeq(s, DotIndex(s) + 1, Len(s))

FloatParses(s) ==
    /\ AllDigits(IntPart(s))
    /\ AllDigits(FracPart(s))
    /\ Len(IntPart(s)) + Len(FracPart(s)) > 0
    /\ Len(FracPart(s)) <= 3

RECURSIVE DigitsVal(_)
DigitsVal(s) == IF s = <<>> THEN 0 ELSE DigitsVal(SubSeq(s, 1, Len(s) - 1)) * 10 + DigitVal(s[Len(s)])

\* the fraction digits padded to thousandths
FracThousandths(f) ==
    CASE Len(f) = 0 -> 0
      [] Len(f) = 1 -> DigitsVal(f) * 100
      [] Len(f) = 2 -> DigitsVal(f) * 10
      [] OTHER      -> DigitsVal(f)

ParseFloat(s) == [t |-> "num", n |-> DigitsVal(IntPart(s)), m |-> FracThousandths(FracPart(s))]

\* _first_number (src/app.py:185-194)
RECURSIVE FirstNumber(_)
FirstNumber(values) ==
    IF values = <<>> THEN JNull
    ELSE LET value == Head(values) IN
         IF IsNumber(value) THEN ToFloat(value)
         ELSE IF IsStr(value) /\ FloatParses(Strip(value.s)) THEN ParseFloat(Strip(value.s))
         ELSE FirstNumber(Tail(values))

\* _deep_get (src/app.py:208-216)
RECURSIVE DeepWalk(_, _)
DeepWalk(obj, keys) ==
    IF keys = <<>> THEN obj
    ELSE IF ~IsDict(obj) THEN JNull
    ELSE DeepWalk(Get(obj, Head(keys)), Tail(keys))

DeepGet(obj, keys) ==
    LET o == DeepWalk(obj, keys)
    IN IF IsStr(o) /\ Strip(o.s) # <<>> THEN JStr(Strip(o.s)) ELSE JNull

\* metadata.get(k) if isinstance(metadata.get(k), dict) else {}
DictOrEmpty(v) == IF IsDict(v) THEN v ELSE EmptyDict

\* the ids joined into eventSource (src/app.py:251)
RECURSIVE UsingIds(_)
UsingIds(items) ==
    IF items = <<>> THEN <<>>
    ELSE IF IsDict(Head(items)) /\ Truthy(Get(Head(items), s_id))
        THEN <<GetOr(Head(items), s_id, EmptyStr)>> \o UsingIds(Tail(items))
    ELSE UsingIds(Tail(items))

\* ", ".join(ids) for str ids
RECURSIVE JoinComma(_)
JoinComma(ids) ==
    IF ids = <<>> THEN <<>>
    ELSE IF Len(ids) = 1 THEN ids[1].s
    ELSE ids[1].s \o <<",", " ">> \o JoinComma(Tail(ids))

(***************************************************************************)
(* _normalize_audit_event (src/app.py:110-381).  NormCtx computes the      *)
(* locals of the function; NormRaises says whether the call raises.        *)
(***************************************************************************)
\* targets[0] raises for a number (TypeError) and for a non-empty dict (KeyError)
Target0Raises(targets) == Truthy(targets) /\ targets.t \in {"num", "bool", "dict"}

\* first_target (src/app.py:120)
FirstTarget(targets) ==
    IF Target0Raises(targets) \/ ~Truthy(targets) THEN EmptyDict
    ELSE IF IsList(targets) THEN targets.l[1]
    ELSE JStr(<<targets.s[1]>>)

\* entity (src/app.py:121)
Entity(first_target) ==
    IF IsDict(first_target) THEN PyOr(Get(first_target, s_entity), EmptyDict) ELSE EmptyDict

\* the sources merged into metadata, in order (src/app.py:141-149)
MetadataSources(raw, first_target, entity) ==
    IF IsDict(first_target) /\ IsDict(entity)
    THEN << Get(raw, s_metadata),
            Get(first_target, s_customAttributes),
            Get(first_target, s_attributes),
            Get(first_target, s_properties),
            Get(entity, s_customAttributes),
            Get(entity, s_attributes),
            Get(entity, s_properties) >>
    ELSE <<>>

\* metadata after both merges, with whether the second loop raised (src/app.py:150-171)
Expanded(raw, first_target, entity, affecting) ==
    AffExpand(Iter(affecting), 1,
              [meta |-> MergeSources(<<>>, MetadataSources(raw, first_target, entity)),
               raised |-> FALSE])

\* using (src/app.py:249)
Using(action) == IF IsDict(action) THEN PyOr(Get(action, s_using), EmptyList) ELSE EmptyList

CtxRecord(actor, action, context_in, targets, first_target, entity, affecting, expand, using) ==
    [ actor |-> actor, action |-> action, context_in |-> context_in,
      targets |-> targets, target0_raises |-> Target0Raises(targets),
      first_target |-> first_target, entity |-> entity, affecting |-> affecting,
      scan |-> AffScan(Iter(affecting),
                       [env |-> JNull, hw |-> JNull, hwid |-> JNull, raised |-> FALSE]),
      expand |-> expand, metadata |-> JDict(expand.meta),
      using |-> using, using_ids |-> UsingIds(Iter(using)) ]

CtxOfEntity(raw, actor, action, context_in, targets, first_target, entity, affecting) ==
    CtxRecord(actor, action, context_in, targets, first_target, entity, affecting,
              Expanded(raw, first_target, entity, affecting), Using(action))

CtxOfTarget(raw, actor, action, context_in, targets, first_target, affecting) ==
    CtxOfEntity(raw, actor, action, context_in, targets, first_target, Entity(first_target),
                affecting)

CtxOfTargets(raw, actor, action, context_in, targets, affecting) ==
    CtxOfTarget(raw, actor, action, context_in, targets, FirstTarget(targets), affecting)

\* the locals of _normalize_audit_event up to src/app.py:171 and at 249-251
NormCtx(raw) ==
    CtxOfTargets(raw,
                 PyOr(Get(raw, s_actor), EmptyDict),
                 PyOr(Get(raw, s_action), EmptyDict),
                 PyOr(Get(raw, s_in), EmptyDict),
                 PyOr(Get(raw, s_targets), EmptyList),
                 PyOr(Get(raw, s_affecting), EmptyList))

\* the call raises, by the line that raises
CtxRaises(c) ==
    \/ c.target0_raises                                 \* :120 targets[0]
    \/ ~IsDict(c.first_target)                          \* :121 first_target.get
    \/ NotIterable(c.affecting)                         \* :128 for aff in affecting
    \/ c.scan.raised                                    \* :131 (.. or "").lower()
    \/ ~IsDict(c.entity)                                \* :147 entity.get
    \/ c.expand.raised                                  \* :169 type_counters[etype]
    \/ ~IsDict(c.action)                                \* :234 action.get
    \/ LowerRaises(Get(c.action, s_eventName))          \* :234 (.. or "").lower()
    \/ LowerRaises(Get(c.entity, s_entityType))         \* :235 (.. or "").lower()
    \/ NotIterable(c.using)                             \* :250 for u in using
    \/ \E i \in 1..Len(c.using_ids) : ~IsStr(c.using_ids[i])   \* :251 ", ".join
    \/ ~IsDict(c.actor)                                 \* :257 actor.get
    \/ ~IsDict(c.context_in)                            \* :268 context_in.get

NormRaises(raw) == CtxRaises(NormCtx(raw))

\* stage_duration without the comparison of the two times
StageDurationUnordered(completed_ms, start_ms) ==
    IF IsNumber(completed_ms) /\ IsNumber(start_ms)
    THEN DivThousand(NumN(completed_ms) - NumN(start_ms))
    ELSE JNull

\* stage_duration (src/app.py:225-231)
StageDuration(completed_ms, start_ms) ==
    IF IsNumber(completed_ms) /\ IsNumber(start_ms) /\ NumGT(completed_ms, start_ms)
    THEN DivThousand(NumN(completed_ms) - NumN(start_ms))
    ELSE JNull

\* inferred_run_type from the entity type alone
InferredRunTypeByEntity(event_name, entity_type) ==
    IF entity_type = s_workspace THEN JStr(s_Workspace)
    ELSE IF entity_type = s_job THEN JStr(s_Job)
    ELSE IF entity_type = s_run THEN JStr(s_Run)
    ELSE JNull

\* inferred_run_type (src/app.py:236-245)
InferredRunType(event_name, entity_type) ==
    IF Contains(s_workspace, event_name) \/ entity_type = s_workspace THEN JStr(s_Workspace)
    ELSE IF Contains(s_job, event_name) \/ entity_type = s_job THEN JStr(s_Job)
    ELSE IF Contains(s_app, event_name) THEN JStr(s_App)
    ELSE IF Contains(s_run, event_name) \/ entity_type = s_run THEN JStr(s_Run)
    ELSE JNull

\* event_source (src/app.py:251)
EventSource(joined) == IF joined = <<>> THEN JNull ELSE JStr(joined)

\* the dict returned at src/app.py:253-381
NormFields(raw, actor, action, context_in, entity, metadata, scan, using_ids,
           meta_lower, meta_stage_time, event_name, entity_type) ==
    LET ci(key) == Get(meta_lower, NormKey(key))
        meta_statuses == DictOrEmpty(Get(metadata, s_statuses))
        meta_environment == DictOrEmpty(Get(metadata, s_environment))
        meta_started_by == DictOrEmpty(Get(metadata, s_startedBy))
        meta_hardware == DictOrEmpty(Get(metadata, s_hardwareTier))
        affecting_env_name == scan.env
        affecting_hw_name == scan.hw
        affecting_hw_id == scan.hwid
        stage_duration == StageDuration(Get(meta_stage_time, s_completedTime),
                                        Get(meta_stage_time, s_runStartTime))
        inferred_run_type == InferredRunType(event_name, entity_type)
        workspace_name == IF entity_type = s_workspace THEN Get(entity, s_name) ELSE JNull
        event_source == EventSource(JoinComma(using_ids))
    IN [ id |-> Get(raw, s_id),
         event |-> PyOr(PyOr(Get(action, s_eventName), Get(raw, s_event)), EmptyStr),
         timestamp |-> Get(raw, s_timestamp),
         actorId |-> PyOr(Get(actor, s_id), Get(actor, s_userId)),
         actorName |-> FirstNonEmpty(<< Get(actor, s_name),
                                        DeepGet(metadata, <<s_startedBy, s_username>>),
                                        Get(meta_started_by, s_username) >>),
         actorFirstName |-> Get(actor, s_firstName),
         actorLastName |-> Get(actor, s_lastName),
         targetType |-> PyOr(Get(entity, s_entityType), Get(raw, s_targetType)),
         targetId |-> PyOr(Get(entity, s_id), Get(raw, s_targetId)),
         targetName |-> PyOr(Get(entity, s_name), Get(raw, s_targetName)),
         withinProjectId |-> PyOr(Get(context_in, s_id), Get(raw, s_withinProjectId)),
         withinProjectName |-> PyOr(Get(context_in, s_name), Get(raw, s_withinProjectName)),
         eventSource |-> event_source,
         traceId |-> Get(action, s_traceId),
         electronicallySigned |-> Get(action, s_electronicallySigned),
         metadata |-> metadata,
         command |-> FirstNonEmpty(<< Get(raw, s_command),
                                      Get(metadata, s_Run_Command),
                                      Get(metadata, s_runCommand),
                                      Get(metadata, s_command),
                                      Get(metadata, s_jobRunCommand),
                                      Get(metadata, s_commandToRun),
                                      Get(metadata, s_commandLine),
                                      Get(metadata, s_entrypoint),
                                      ci(s_runcommand),
                                      ci(s_command),
                                      workspace_name >>),
         status |-> FirstNonEmpty(<< Get(raw, s_status),
                                     Get(metadata, s_Execution_Status),
                                     Get(metadata, s_status),
                                     Get(metadata, s_runStatus),
                                     Get(metadata, s_executionStatus),
                                     Get(meta_statuses, s_executionStatus),
                                     Get(metadata, s_currentStatus),
                                     DeepGet(metadata, <<s_data, s_currentStatus>>),
                                     ci(s_executionstatus),
                                     ci(s_status) >>),
         durationSec |-> FirstNumber(<< Get(raw, s_durationSec),
                                        Get(metadata, s_runDurationSec),
                                        Get(metadata, s_runDurationSeconds),
                                        Get(metadata, s_runDurationInSeconds),
                                        Get(metadata, s_Run_Duration),
                                        stage_duration >>),
         computeTier |-> FirstNonEmpty(<< Get(raw, s_computeTier),
                                          Get(metadata, s_computeTier),
                                          Get(metadata, s_computeSize),
                                          Get(metadata, s_tier),
                                          Get(metadata, s_machineSize) >>),
         hardwareTier |-> FirstNonEmpty(<< Get(raw, s_hardwareTier),
                                           affecting_hw_name,
                                           Get(metadata, s_Hardware_Tier),
                                           Get(metadata, s_hardwareTierName),
                                           Get(meta_hardware, s_name),
                                           Get(metadata, s_hardware),
                                           ci(s_hardwaretier) >>),
         hardwareTierId |-> affecting_hw_id,
         environmentName |-> FirstNonEmpty(<< Get(raw, s_environmentName),
                                              affecting_env_name,
                                              Get(metadata, s_Environment),
                                              Get(metadata, s_environmentName),
                                              Get(meta_environment, s_environmentName),
                                              IF IsStr(Get(metadata, s_environment))
                                                  THEN Get(metadata, s_environment) ELSE JNull,
                                              Get(metadata, s_environmentRevisionName),
                                              Get(metadata, s_environmentDisplayName),
                                              ci(s_environment),
                                              ci(s_environmentname) >>),
         runId |-> FirstNonEmpty(<< Get(raw, s_runId),
                                    Get(metadata, s_Run),
                                    Get(metadata, s_runId),
                                    Get(metadata, s_executionId),
                                    IF entity_type \in {s_run, s_job}
                                        THEN Get(entity, s_id) ELSE JNull,
                                    ci(s_run),
                                    ci(s_runid) >>),
         jobId |-> FirstNonEmpty(<< Get(metadata, s_jobId),
                                    Get(metadata, s_Job),
                                    IF entity_type = s_job THEN Get(entity, s_id) ELSE JNull,
                                    ci(s_jobid) >>),
         runType |-> FirstNonEmpty(<< Get(metadata, s_Run_Type),
                                      Get(metadata, s_runType),
                                      Get(metadata, s_executionType),
                                      Get(metadata, s_workloadType),
                                      ci(s_runtype),
                                      inferred_run_type >>),
         runFile |-> FirstNonEmpty(<< Get(raw, s_runFile),
                                      Get(metadata, s_Run_File),
                                      Get(metadata, s_runFile),
                                      Get(metadata, s_filename),
                                      ci(s_runfile) >>),
         runOrigin |-> FirstNonEmpty(<< Get(raw, s_runOrigin),
                                        Get(metadata, s_Run_Origin),
                                        Get(metadata, s_runOrigin),
                                        Get(metadata, s_source),
                                        ci(s_runorigin) >>),
         raw |-> [ id |-> Get(raw, s_id),
                   action |-> Get(raw, s_action),
                   in |-> Get(raw, s_in),
                   targets |-> Get(raw, s_targets),
                   affecting |-> Get(raw, s_affecting),
                   source |-> Get(raw, s_source) ] ]

\* the locals of src/app.py:174-251 handed to the returned dict
NormOfCtx(raw, c) ==
    NormFields(raw, c.actor, c.action, c.context_in, c.entity, c.metadata, c.scan, c.using_ids,
               JDict(MetaLower(<<>>, c.metadata.d)),
               DictOrEmpty(Get(c.metadata, s_stageTime)),
               OrLower(Get(c.action, s_eventName)),
               OrLower(Get(c.entity, s_entityType)))

\* _normalize_audit_event(raw) for a call that does not raise
NormEvent(raw) == NormOfCtx(raw, NormCtx(raw))

\* the outcome of _normalize_audit_event(raw) for a dict raw
Normalize(raw) ==
    IF NormRaises(raw) THEN [raised |-> TRUE] ELSE [raised |-> FALSE, ev |-> NormEvent(raw)]

(***************************************************************************)
(* Lists of events, run-length encoded.                                    *)
(***************************************************************************)
RECURSIVE ListLen(_)
\* len(events)
ListLen(L) == IF L = <<>> THEN 0 ELSE Head(L).n + ListLen(Tail(L))

\* the same per-event step applied to every event of the list
MapEvents(L, F(_)) == [i \in 1..Len(L) |-> [item |-> F(L[i].item), n |-> L[i].n]]

(***************************************************************************)
(* An upstream HTTP exchange: kind "ok" (resp.ok, body parsed by           *)
(* resp.json()), "badjson" (resp.ok, resp.json() raises), "status"         *)
(* (not resp.ok) or "exc" (requests.get raises: timeout, transport error). *)
(***************************************************************************)
RespOk(body) == [kind |-> "ok", status |-> 200, body |-> body]
RespBadJson == [kind |-> "badjson", status |-> 200, body |-> JNull]
RespStatus(code) == [kind |-> "status", status |-> code, body |-> JNull]
RespExc == [kind |-> "exc", status |-> 0, body |-> JNull]

(***************************************************************************)
(* _fill, the same closure in the three stages                             *)
(* (src/app.py:433-438, 519-524, 650-655).                                 *)
(***************************************************************************)
\* event.get(key) in (None, "", "Unknown")
IsBlank(v) == IsNull(v) \/ (IsStr(v) /\ v.s \in {<<>>, s_Unknown})
\* value in (None, "")
IsEmptyValue(v) == IsNull(v) \/ (IsStr(v) /\ v.s = <<>>)

\* _fill without its test of the event's value
FillOverwrites(event, key, value) ==
    IF IsEmptyValue(value) THEN event ELSE [event EXCEPT ![key] = value]

Fill(event, key, value) ==
    IF ~IsBlank(event[key]) THEN event
    ELSE IF IsEmptyValue(value) THEN event
    ELSE [event EXCEPT ![key] = value]

\* a _fill call under an if statement
FillIf(cond, event, key, value) == IF cond THEN Fill(event, key, value) ELSE event

(***************************************************************************)
(* _enrich_events_with_runs (src/app.py:384-467).                          *)
(***************************************************************************)
\* run_ids (src/app.py:397-411), acc = [ids, stop]
RECURSIVE RunsCollect(_, _, _)
RunsCollect(L, max, acc) ==
    IF L = <<>> \/ acc.stop THEN acc.ids
    ELSE LET run_id == Head(L).item.runId IN
         IF ~IsStr(run_id) \/ Strip(run_id.s) = <<>> THEN RunsCollect(Tail(L), max, acc)
         ELSE IF Lower(Strip(run_id.s)) = s_unknown THEN RunsCollect(Tail(L), max, acc)
         ELSE IF \E i \in 1..Len(acc.ids) : acc.ids[i] = Strip(run_id.s)
             THEN RunsCollect(Tail(L), max, acc)
         ELSE LET ids == Append(acc.ids, Strip(run_id.s))
              IN RunsCollect(Tail(L), max, [ids |-> ids, stop |-> Len(ids) >= max])

RunIds(L, max) == RunsCollect(L, max, [ids |-> <<>>, stop |-> FALSE])

\* runs_by_id with the loop left at the first lookup that fails
RECURSIVE RunsByIdStopsAtFailure(_, _)
RunsByIdStopsAtFailure(ids, resp) ==
    IF ids = <<>> THEN <<>>
    ELSE LET r == resp[Head(ids)]
         IN IF r.kind = "ok" /\ IsDict(r.body)
            THEN <<<<Head(ids), r.body>>>> \o RunsByIdStopsAtFailure(Tail(ids), resp)
            ELSE <<>>

\* runs_by_id (src/app.py:416-427): resp maps an id to its exchange
RECURSIVE RunsById(_, _)
RunsById(ids, resp) ==
    IF ids = <<>> THEN <<>>
    ELSE LET r == resp[Head(ids)]
             rest == RunsById(Tail(ids), resp)
         IN IF r.kind = "ok" /\ IsDict(r.body) THEN <<<<Head(ids), r.body>>>> \o rest ELSE rest

\* the fills at src/app.py:448-463 for one event and its run record
\* the fills of the loop body with computeTier filled beside hardwareTier, as the bulk
\* stage does
RunsFillWithComputeTier(event, run_data, details) ==
    LET env_name == IF IsDict(details)
                    THEN PyOr(Get(details, s_name), Get(details, s_environmentName))
                    ELSE JNull
        tier == PyOr(Get(run_data, s_hardwareTierName), Get(run_data, s_hardwareTier))
        e1 == Fill(event, "command", Get(run_data, s_command))
        e2 == Fill(e1, "status", Get(run_data, s_status))
        e3 == Fill(e2, "durationSec",
                   PyOr(Get(run_data, s_runDurationInSeconds), Get(run_data, s_runDurationSec)))
        e4 == Fill(Fill(e3, "hardwareTier", tier), "computeTier", tier)
        e5 == Fill(e4, "withinProjectName",
                   PyOr(Get(run_data, s_projectIdentity), Get(run_data, s_projectName)))
        e6 == Fill(e5, "actorName", Get(run_data, s_userName))
        e7 == Fill(e6, "targetName", Get(run_data, s_title))
    IN Fill(e7, "environmentName", env_name)

\* the fills of the loop body (src/app.py:448-462)
RunsFill(event, run_data, details) ==
    LET env_name == IF IsDict(details)
                    THEN PyOr(Get(details, s_name), Get(details, s_environmentName))
                    ELSE JNull
        e1 == Fill(event, "command", Get(run_data, s_command))
        e2 == Fill(e1, "status", Get(run_data, s_status))
        e3 == Fill(e2, "durationSec",
                   PyOr(Get(run_data, s_runDurationInSeconds), Get(run_data, s_runDurationSec)))
        e4 == Fill(e3, "hardwareTier",
                   PyOr(Get(run_data, s_hardwareTierName), Get(run_data, s_hardwareTier)))
        e5 == Fill(e4, "withinProjectName",
                   PyOr(Get(run_data, s_projectIdentity), Get(run_data, s_projectName)))
        e6 == Fill(e5, "actorName", Get(run_data, s_userName))
        e7 == Fill(e6, "targetName", Get(run_data, s_title))
    IN Fill(e7, "environmentName", env_name)

\* run_data of the event (src/app.py:442-447), JNull when the event is passed over
RunDataOf(event, runs_by_id) ==
    IF ~IsStr(event.runId) THEN JNull ELSE Get(JDict(runs_by_id), event.runId.s)

RunsApplyRun(event, run_data) ==
    IF ~Truthy(run_data) THEN event
    ELSE RunsFill(event, run_data, Get(run_data, s_environmentDetails))

\* the loop body with actorName assigned rather than filled
RunsApplyAssigns(event, runs_by_id) ==
    LET run_data == RunDataOf(event, runs_by_id)
        e == RunsApplyRun(event, run_data)
    IN IF ~Truthy(run_data) \/ IsEmptyValue(Get(run_data, s_userName)) THEN e
       ELSE [e EXCEPT !.actorName = Get(run_data, s_userName)]

\* the body of the loop at src/app.py:441-464 for one event
RunsApply(event, runs_by_id) == RunsApplyRun(event, RunDataOf(event, runs_by_id))

\* the calls the stage issues, in order
RunsCalls(c, L) ==
    IF ~c.runs_enabled \/ ~c.domino_host THEN <<>>
    ELSE LET ids == RunIds(L, c.runs_max)
         IN [i \in 1..Len(ids) |-> [kind |-> "run", id |-> ids[i]]]

\* _enrich_events_with_runs(events, headers) under configuration c
RunsStage(c, L, resp) ==
    IF ~c.runs_enabled THEN L
    ELSE IF ~c.domino_host THEN L
    ELSE LET run_ids == RunIds(L, c.runs_max) IN
         IF run_ids = <<>> THEN L
         ELSE LET runs_by_id == RunsById(run_ids, resp) IN
              IF runs_by_id = <<>> THEN L
              ELSE LET Step(e) == RunsApply(e, runs_by_id) IN MapEvents(L, Step)

(***************************************************************************)
(* _enrich_events_with_jobs (src/app.py:470-577).                          *)
(***************************************************************************)
\* job_ids (src/app.py:484-494): the length test runs after every event
RECURSIVE JobsCollect(_, _, _)
JobsCollect(L, max, ids) ==
    IF L = <<>> THEN ids
    ELSE LET jid == PyOr(Head(L).item.jobId, EmptyStr)
             eligible == IsStr(jid) /\ Strip(jid.s) # <<>> /\ Lower(Strip(jid.s)) # s_unknown
             ids2 == IF eligible /\ ~\E i \in 1..Len(ids) : ids[i] = Strip(jid.s)
                     THEN Append(ids, Strip(jid.s)) ELSE ids
         IN IF Len(ids2) >= max THEN ids2 ELSE JobsCollect(Tail(L), max, ids2)

JobIds(L, max) == JobsCollect(L, max, <<>>)

\* merged for one id (src/app.py:501-511): resp maps <<id, k>> to the k-th exchange
JobMerged(jid, resp) ==
    LET r1 == resp[<<jid, 1>>]
        r2 == resp[<<jid, 2>>]
        m1 == IF r1.kind = "ok" /\ IsDict(r1.body) THEN r1.body.d ELSE <<>>
    IN IF r2.kind = "ok" /\ IsDict(r2.body) THEN Update(m1, r2.body.d) ELSE m1

\* jobs_by_id (src/app.py:499-513)
RECURSIVE JobsById(_, _)
JobsById(ids, resp) ==
    IF ids = <<>> THEN <<>>
    ELSE LET merged == JobMerged(Head(ids), resp)
             rest == JobsById(Tail(ids), resp)
         IN IF merged # <<>> THEN <<<<Head(ids), JDict(merged)>>>> \o rest ELSE rest

\* (event.get("jobId") or "").strip() raises AttributeError (src/app.py:528)
JobsApplyRaises(event) == Truthy(event.jobId) /\ ~IsStr(event.jobId)

\* the fills at src/app.py:535-572 for one event and its job record
JobsFill(event, job, statuses, hw, env, started_by, stage_time) ==
    LET completed == IF IsDict(stage_time) THEN Get(stage_time, s_completedTime) ELSE JNull
        started == IF IsDict(stage_time) THEN Get(stage_time, s_runStartTime) ELSE JNull
        e1 == Fill(event, "command", PyOr(Get(job, s_jobRunCommand), Get(job, s_command)))
        e2 == FillIf(IsDict(statuses), e1, "status", Get(statuses, s_executionStatus))
        e3 == Fill(e2, "status", Get(job, s_status))
        e4 == FillIf(IsDict(hw) \/ IsStr(hw), e3, "hardwareTier",
                     IF IsDict(hw) THEN PyOr(Get(hw, s_name), Get(hw, s_hardwareTierName))
                     ELSE hw)
        e5 == Fill(e4, "hardwareTier", Get(job, s_hardwareTierName))
        e6 == FillIf(IsDict(env), e5, "environmentName", Get(env, s_environmentName))
        e7 == FillIf(IsDict(started_by), e6, "actorName", Get(started_by, s_username))
        e8 == FillIf(IsNumber(completed) /\ IsNumber(started) /\ NumGT(completed, started),
                     e7, "durationSec", DivThousand(NumN(completed) - NumN(started)))
        e9 == Fill(e8, "durationSec", Get(job, s_runDurationInSeconds))
        e10 == Fill(e9, "withinProjectName", Get(job, s_projectName))
    IN Fill(e10, "targetName", PyOr(Get(job, s_title), Get(job, s_name)))

\* jid of the event (src/app.py:528)
JidOf(event) == IF Truthy(event.jobId) THEN Strip(event.jobId.s) ELSE <<>>

\* job of the event (src/app.py:528-533), JNull when the event is passed over
JobOf(jid, jobs_by_id) == IF jid = <<>> THEN JNull ELSE Get(JDict(jobs_by_id), jid)

JobsApplyJob(event, job) ==
    IF ~Truthy(job) THEN event
    ELSE JobsFill(event, job,
                  PyOr(Get(job, s_statuses), EmptyDict),
                  Get(job, s_hardwareTier),
                  PyOr(Get(job, s_environment), EmptyDict),
                  PyOr(Get(job, s_startedBy), EmptyDict),
                  PyOr(Get(job, s_stageTime), EmptyDict))

\* the body of the loop at src/app.py:527-574 for one event
JobsApply(event, jobs_by_id) == JobsApplyJob(event, JobOf(JidOf(event), jobs_by_id))

\* the calls of the stage with runtimeExecutionDetails requested before the job detail
JobsCallsRuntimeFirst(c, L) ==
    IF ~c.jobs_enabled \/ ~c.domino_host THEN <<>>
    ELSE LET ids == JobIds(L, c.jobs_max)
         IN [i \in 1..(2 * Len(ids)) |->
                [kind |-> IF i % 2 = 1 THEN "job_runtime" ELSE "job", id |-> ids[(i + 1) \div 2]]]

\* the calls the stage issues, in order: job detail, then runtimeExecutionDetails, per id
JobsCalls(c, L) ==
    IF ~c.jobs_enabled \/ ~c.domino_host THEN <<>>
    ELSE LET ids == JobIds(L, c.jobs_max)
         IN [i \in 1..(2 * Len(ids)) |->
                [kind |-> IF i % 2 = 1 THEN "job" ELSE "job_runtime", id |-> ids[(i + 1) \div 2]]]

\* _enrich_events_with_jobs(events, headers) under configuration c: [raised, events]
JobsStage(c, L, resp) ==
    IF ~c.jobs_enabled THEN [raised |-> FALSE, events |-> L]
    ELSE IF ~c.domino_host THEN [raised |-> FALSE, events |-> L]
    ELSE LET job_ids == JobIds(L, c.jobs_max) IN
         IF job_ids = <<>> THEN [raised |-> FALSE, events |-> L]
         ELSE LET jobs_by_id == JobsById(job_ids, resp) IN
              IF jobs_by_id = <<>> THEN [raised |-> FALSE, events |-> L]
              ELSE IF \E i \in 1..Len(L) : JobsApplyRaises(L[i].item)
                  THEN [raised |-> TRUE, events |-> L]
              ELSE LET Step(e) == JobsApply(e, jobs_by_id)
                   IN [raised |-> FALSE, events |-> MapEvents(L, Step)]

(***************************************************************************)
(* _enrich_events_bulk_from_control_center (src/app.py:580-684).           *)
(* Timestamps are in units of 86400: one day is 1, and strftime("%Y%m%d")  *)
(* of a datetime is determined by its whole number of days.                *)
(***************************************************************************)
\* 1e12 (src/app.py:603) in units of 86400, rounded down
MsThreshold == 11574074
\* datetime.max, 9999-12-31, and datetime.min, 0001-01-01, as days since the epoch
MaxDay == 2932896
MinDay == -719162

\* timestamps (src/app.py:594)
RECURSIVE Timestamps(_)
Timestamps(L) ==
    IF L = <<>> THEN {}
    ELSE (IF IsNumber(Head(L).item.timestamp) THEN {ToFloat(Head(L).item.timestamp)} ELSE {})
         \cup Timestamps(Tail(L))

NumLE(a, b) == ~NumGT(a, b)
\* min(timestamps), max(timestamps)
MinTs(T) == CHOOSE x \in T : \A y \in T : NumLE(x, y)
MaxTs(T) == CHOOSE x \in T : \A y \in T : NumLE(y, x)

\* src/app.py:603-605: both ends are divided when the minimum exceeds 1e12
InMs(T) == NumGT(MinTs(T), JNum(MsThreshold))
\* the whole days of min_ts and max_ts after lines 603-605
MinDays(T) == IF InMs(T) THEN MinTs(T).n \div 1000 ELSE MinTs(T).n
MaxDays(T) == IF InMs(T) THEN MaxTs(T).n \div 1000 ELSE MaxTs(T).n

\* datetime.fromtimestamp(..) -/+ timedelta(days=1) raises (src/app.py:607-608)
WindowRaises(T) == MinDays(T) - 1 < MinDay \/ MaxDays(T) + 1 > MaxDay

\* start_date, end_date (src/app.py:609-610) as day numbers
StartDate(T) == MinDays(T) - 1
EndDate(T) == MaxDays(T) + 1

\* hw_tier_names (src/app.py:613-625): an unhashable id raises inside the try and ends the loop
RECURSIVE HwTierTable(_, _)
HwTierTable(tbl, tiers) ==
    IF tiers = <<>> THEN tbl
    ELSE LET tier == Head(tiers) IN
         IF IsDict(tier) /\ Truthy(Get(tier, s_id)) /\ Truthy(Get(tier, s_name))
         THEN IF Get(tier, s_id).t \in {"list", "dict"} THEN tbl
              ELSE HwTierTable(Put(tbl, Get(tier, s_id), Get(tier, s_name)), Tail(tiers))
         ELSE HwTierTable(tbl, Tail(tiers))

HwTierNames(hw_resp) ==
    IF hw_resp.kind = "ok" /\ IsList(hw_resp.body) THEN HwTierTable(<<>>, hw_resp.body.l) ELSE <<>>

\* runs_by_id (src/app.py:634-638); an unhashable id raises inside the try
RECURSIVE BulkRunsTable(_, _)
BulkRunsTable(tbl, runs) ==
    IF runs = <<>> THEN tbl
    ELSE LET run == Head(runs) IN
         IF IsDict(run) /\ Truthy(Get(run, s_id))
         THEN BulkRunsTable(Put(tbl, Get(run, s_id), run), Tail(runs))
         ELSE BulkRunsTable(tbl, Tail(runs))

BulkRunsRaises(runs) ==
    \E i \in 1..Len(runs) : IsDict(runs[i]) /\ Get(runs[i], s_id).t \in {"list", "dict"}
                            /\ Truthy(Get(runs[i], s_id))

\* the runs fetch fails: the stage returns at src/app.py:642 or 645
BulkFetchFails(runs_resp) ==
    \/ runs_resp.kind \in {"status", "exc", "badjson"}
    \/ (IsList(runs_resp.body) /\ BulkRunsRaises(runs_resp.body.l))

BulkRunsById(runs_resp) ==
    IF IsList(runs_resp.body) THEN BulkRunsTable(<<>>, runs_resp.body.l) ELSE <<>>

\* the fills at src/app.py:666-679 for one event and its utilization record
BulkFill(event, run, hw_id, hw_name, run_type) ==
    LET e1 == Fill(event, "durationSec", Get(run, s_runDurationInSeconds))
        e2 == FillIf(IsStr(hw_id), e1, "hardwareTier", hw_name)
        e3 == FillIf(IsStr(hw_id), e2, "computeTier", hw_name)
        e4 == Fill(e3, "withinProjectName", Get(run, s_projectIdentity))
        e5 == Fill(e4, "actorName", Get(run, s_startingUserFullName))
    IN FillIf(IsStr(run_type) /\ Strip(run_type.s) # <<>>, e5, "runType",
              JStr(Strip(run_type.s)))

\* run of the event (src/app.py:659-664), JNull when the event is passed over
BulkRunOf(event, runs_by_id) ==
    IF ~IsStr(event.runId) THEN JNull
    ELSE Get(JDict(runs_by_id), JStr(Strip(event.runId.s)))

\* hw_name (src/app.py:670)
HwName(hw_tier_names, hw_id) == GetOr(JDict(hw_tier_names), hw_id, hw_id)

BulkApplyRun(event, run, hw_tier_names) ==
    IF ~Truthy(run) THEN event
    ELSE BulkFill(event, run, Get(run, s_hardwareTierId),
                  HwName(hw_tier_names, Get(run, s_hardwareTierId)), Get(run, s_runType))

\* the loop body with computeTier taken from the event's hardwareTier, before that is filled
BulkApplyTierFromEvent(event, runs_by_id, hw_tier_names) ==
    LET run == BulkRunOf(event, runs_by_id)
        filled == BulkApplyRun(event, run, hw_tier_names)
    IN IF ~Truthy(run) \/ ~IsStr(Get(run, s_hardwareTierId)) THEN filled
       ELSE [filled EXCEPT
                !.computeTier = Fill(event, "computeTier", event.hardwareTier).computeTier]

\* the body of the loop at src/app.py:658-681 for one event
BulkApply(event, runs_by_id, hw_tier_names) ==
    BulkApplyRun(event, BulkRunOf(event, runs_by_id), hw_tier_names)

\* the stage returns before any upstream call (src/app.py:587-596)
BulkSkipped(c, L) == ~c.cc_enabled \/ ~c.domino_host \/ Timestamps(L) = {}

\* the calls the stage issues, in order: hardware-tier table, then runs utilization
BulkCalls(c, L) ==
    IF BulkSkipped(c, L) \/ WindowRaises(Timestamps(L)) THEN <<>>
    ELSE << [kind |-> "hardware_tiers", id |-> <<>>],
            [kind |-> "utilization", id |-> <<>>] >>

\* the stage filling hardwareTier from the tier table even when the runs fetch failed
BulkStageTiersOnFailure(c, L, hw_resp, runs_resp) ==
    IF BulkSkipped(c, L) THEN [raised |-> FALSE, events |-> L]
    ELSE IF WindowRaises(Timestamps(L)) THEN [raised |-> TRUE, events |-> L]
    ELSE LET runs_by_id == IF BulkFetchFails(runs_resp) THEN <<>> ELSE BulkRunsById(runs_resp)
             hw_tier_names == HwTierNames(hw_resp)
             Step(e) == IF hw_tier_names = <<>> THEN BulkApply(e, runs_by_id, hw_tier_names)
                        ELSE Fill(BulkApply(e, runs_by_id, hw_tier_names), "hardwareTier",
                                  hw_tier_names[1][2])
         IN [raised |-> FALSE, events |-> MapEvents(L, Step)]

\* _enrich_events_bulk_from_control_center(events, headers) under configuration c:
\* [raised, events]
BulkStage(c, L, hw_resp, runs_resp) ==
    IF BulkSkipped(c, L) THEN [raised |-> FALSE, events |-> L]
    ELSE IF WindowRaises(Timestamps(L)) THEN [raised |-> TRUE, events |-> L]
    ELSE IF BulkFetchFails(runs_resp) THEN [raised |-> FALSE, events |-> L]
    ELSE LET runs_by_id == BulkRunsById(runs_resp)
             hw_tier_names == HwTierNames(hw_resp)
         IN IF runs_by_id = <<>> THEN [raised |-> FALSE, events |-> L]
            ELSE LET Step(e) == BulkApply(e, runs_by_id, hw_tier_names)
                 IN [raised |-> FALSE, events |-> MapEvents(L, Step)]

(***************************************************************************)
(* _sanitize_upstream_error (src/app.py:746-764).                          *)
(***************************************************************************)
\* text[:200] and text[:500] (src/app.py:755, 762)
SniffLen == 200
TruncateLen == 500

s_doctype == <<"<", "!", "d", "o", "c", "t", "y", "p", "e">>
s_html_end == <<"<", "/", "h", "t", "m", "l", ">">>
s_ellipsis == <<".", ".", ".">>

\* s[:n]
Prefix(s, n) == SubSeq(s, 1, Min(Len(s), n))

\* repr of a str without quotes or backslashes
ReprStr(s) == <<"'">> \o s \o <<"'">>

\* the items of str(d) for a dict of strs
RECURSIVE ReprItems(_)
ReprItems(d) ==
    IF d = <<>> THEN <<>>
    ELSE ReprStr(Head(d)[1]) \o <<":", " ">> \o ReprStr(Head(d)[2].s)
         \o (IF Len(d) > 1 THEN <<",", " ">> ELSE <<>>) \o ReprItems(Tail(d))

\* body if isinstance(body, str) else str(body) (src/app.py:750)
BodyText(body) ==
    IF IsDict(body) THEN <<"{">> \o ReprItems(body.d) \o <<"}">> ELSE PyStr(body)

\* f"Audit API returned {status_code}"
DefaultMessage(status_code) == <<"A", "u", "d", "i", "t", " ", "A", "P", "I", " ", "r", "e", "t", "u", "r", "n", "e", "d", " ">> \o IntToStr(status_code)

\* the fixed text returned for an HTML page (src/app.py:758-761), its dash written "-"
HtmlMessage(status_code) ==
    <<"D", "o", "m", "i", "n", "o", " ", "r", "e", "t", "u", "r", "n", "e", "d", " ">> \o IntToStr(status_code)
    \o <<" ", "(", "H", "T", "M", "L", " ", "p", "a", "g", "e", " ", "-", " ", "a", "u", "d", "i", "t", " ", "e", "n", "d", "p", "o", "i", "n", "t", " ", "n", "o", "t", " ", "f", "o", "u", "n", "d", ")", ".", " ">>
    \o <<"T", "h", "e", " ", "A", "u", "d", "i", "t", " ", "T", "r", "a", "i", "l", " ", "A", "P", "I", " ", "m", "a", "y", " ", "n", "o", "t", " ", "b", "e", " ", "e", "n", "a", "b", "l", "e", "d", " ", "o", "r", " ", "m", "a", "y", " ", "u", "s", "e", " ", "a", " ", "d", "i", "f", "f", "e", "r", "e", "n", "t", " ", "p", "a", "t", "h", " ", "o", "n", " ", "t", "h", "i", "s", " ", "d", "e", "p", "l", "o", "y", "m", "e", "n", "t", ".">>

\* the test at src/app.py:753-757 with "<!doctype" looked for in the whole text
SniffsHtmlAnywhere(text) ==
    /\ text # <<>>
    /\ \/ StartsWith(LStrip(text), <<"<">>)
       \/ Contains(s_doctype, Lower(text))
       \/ Contains(s_html_end, Lower(text))

\* the test at src/app.py:753-757
SniffsHtml(text) ==
    /\ text # <<>>
    /\ \/ StartsWith(LStrip(text), <<"<">>)
       \/ Contains(s_doctype, Lower(Prefix(text, SniffLen)))
       \/ Contains(s_html_end, Lower(text))

\* the return value for the stripped text (src/app.py:753-764)
SanitizeText(status_code, text, html) ==
    IF html THEN HtmlMessage(status_code)
    ELSE LET cut == IF Len(text) > TruncateLen THEN Prefix(text, TruncateLen) \o s_ellipsis
                    ELSE text
         IN IF cut # <<>> THEN cut ELSE DefaultMessage(status_code)

\* _sanitize_upstream_error(status_code, body)
SanitizeUpstreamError(status_code, body) ==
    IF IsNull(body) THEN DefaultMessage(status_code)
    ELSE SanitizeText(status_code, Strip(BodyText(body)), SniffsHtml(Strip(BodyText(body))))

(***************************************************************************)
(* audit(), GET /api/audit (src/app.py:789-893), and its helpers.          *)
(***************************************************************************)
NoPath == <<>>
Slash == <<"/">>

WithSlash(p) == IF StartsWith(p, Slash) THEN p ELSE Slash \o p

\* the loop of _audit_paths_to_try (src/app.py:771-776)
RECURSIVE DedupPaths(_, _)
DedupPaths(out, rest) ==
    IF rest = <<>> THEN out
    ELSE IF \E i \in 1..Len(out) : out[i] = Head(rest) THEN DedupPaths(out, Tail(rest))
    ELSE DedupPaths(Append(out, Head(rest)), Tail(rest))

\* the list without the seen set
AuditPathsNoDedup(c) ==
    <<WithSlash(c.audit_path)>>
    \o [i \in 1..Len(c.fallback_paths) |-> WithSlash(c.fallback_paths[i])]

\* _audit_paths_to_try (src/app.py:767-777)
AuditPathsToTry(c) ==
    LET primary == WithSlash(c.audit_path)
        rest == [i \in 1..Len(c.fallback_paths) |-> WithSlash(c.fallback_paths[i])]
    IN DedupPaths(<<primary>>, rest)

\* requested_limit (src/app.py:797-801)
RequestedLimit(c, r) ==
    LET parsed == IF r.limit.kind = "int" THEN r.limit.n ELSE c.max_limit
    IN Max(0, Min(parsed, c.pagination_cap))

\* page_limit of the first request (src/app.py:807)
FirstPageLimit(c, r) == Min(RequestedLimit(c, r), c.max_limit)

\* a JSON array of events held run-length encoded
JEvents(runs) == [t |-> "rle", runs |-> runs]

\* list(x) raises TypeError
ListRaises(x) == x.t \in {"null", "bool", "num"}

\* list(x) as runs
AsRuns(x) ==
    IF x.t = "rle" THEN x.runs
    ELSE [i \in 1..Len(Iter(x)) |-> [item |-> Iter(x)[i], n |-> 1]]

\* _parse_events_from_response raises (src/app.py:783)
ParseRaises(data) ==
    IsDict(data) /\ HasKey(data.d, s_events) /\ ListRaises(Get(data, s_events))

\* _parse_events_from_response (src/app.py:780-786)
ParseEvents(data) ==
    IF IsDict(data) /\ HasKey(data.d, s_events) THEN AsRuns(Get(data, s_events))
    ELSE IF data.t \in {"list", "rle"} THEN AsRuns(data)
    ELSE <<>>

\* data of an exchange (src/app.py:813-816): r.json(), or r.text when that raises
DataOf(r) == IF r.kind = "badjson" THEN JStr(<<"t", "e", "x", "t">>) ELSE r.body

\* some event of the page makes _normalize_audit_event raise (src/app.py:858, 879)
PageNormRaises(runs) ==
    \E i \in 1..Len(runs) : IsDict(runs[i].item) /\ NormRaises(runs[i].item)

\* runs with adjacent equal items joined
RECURSIVE Join(_, _)
Join(L, M) ==
    IF M = <<>> THEN L
    ELSE IF L # <<>> /\ L[Len(L)].item = Head(M).item
        THEN Join([L EXCEPT ![Len(L)].n = @ + Head(M).n], Tail(M))
    ELSE Join(Append(L, Head(M)), Tail(M))

\* [_normalize_audit_event(ev) for ev in raw_events if isinstance(ev, dict)]
RECURSIVE NormalizePage(_)
NormalizePage(runs) ==
    IF runs = <<>> THEN <<>>
    ELSE IF IsDict(Head(runs).item)
        THEN Join(<<[item |-> NormEvent(Head(runs).item), n |-> Head(runs).n]>>,
                  NormalizePage(Tail(runs)))
    ELSE NormalizePage(Tail(runs))

\* the condition of the pagination loop (src/app.py:862-867)
MorePages(c, r, events, rawlen, off) ==
    /\ RequestedLimit(c, r) > c.max_limit
    /\ ListLen(events) < RequestedLimit(c, r)
    /\ rawlen >= c.max_limit
    /\ off < c.pagination_cap

NoResponse == [kind |-> "none", status |-> 0, at |-> "none", events |-> <<>>]
\* JSONResponse({"error": ..}, status_code=status); at names the step that failed
ErrorResponse(status, at) == [kind |-> "error", status |-> status, at |-> at, events |-> <<>>]
\* JSONResponse(all_events)
EventsResponse(events) == [kind |-> "events", status |-> 200, at |-> "none", events |-> events]

Call(kind, path, limit, off, acc, status, id) ==
    [kind |-> kind, path |-> path, limit |-> limit, offset |-> off, acc |-> acc,
     status |-> status, id |-> id]

\* an enrichment call of the log
EnrichCall(k) == Call(k.kind, NoPath, 0, 0, 0, 0, k.id)
EnrichCalls(ks) == [i \in 1..Len(ks) |-> EnrichCall(ks[i])]

(***************************************************************************)
(* Bounds and input pools.                                                 *)
(***************************************************************************)
\* largest small per-page limit (AUDIT_API_MAX_LIMIT) tried
MaxPageCap == 2
\* largest small safety cap (AUDIT_PAGINATION_CAP) tried
MaxSafetyCap == 5
\* largest small limit query parameter tried
MaxLimitParam == 6
\* largest caller-supplied offset tried
MaxOffsetParam == 1
\* largest per-stage id cap (RUNS_ENRICHMENT_MAX_RUNS, JOBS_ENRICHMENT_MAX) tried
MaxIdCap == 2
\* length of the log of upstream calls: page requests beyond it are issued without being
\* logged; no request that returns issues as many calls
MaxCallLog == 12

\* defaults of the configuration (src/app.py:30, 32)
DefaultMaxLimit == 1000
DefaultPaginationCap == 50000
\* the limit of the documented pagination scenario, also used as a safety cap that
\* is not a multiple of the default page limit
ScenarioLimits == {2500}

\* short stand-ins for the configured paths: "/a" "/b" "/c", and "a" "b" without slash
p_a == <<"/", "a">>
p_b == <<"/", "b">>
p_c == <<"/", "c">>
p_a_bare == <<"a">>
p_b_bare == <<"b">>

\* (AUDIT_API_PATH, AUDIT_API_FALLBACK_PATHS) as loaded at src/app.py:23-28
PathConfigs ==
    { <<p_a, <<>>>>,
      <<p_a, <<p_b, p_c>>>>,
      <<p_a_bare, <<p_a, p_b_bare, p_b, p_c>>>> }

\* ids, names and values carried by the inputs
v_r1 == <<"r", "1">>
v_r2 == <<"r", "2">>
v_j1 == <<"j", "1">>
v_j2 == <<"j", "2">>
v_h1 == <<"h", "1">>
v_al == <<"a", "l">>
v_bo == <<"b", "o">>
v_cy == <<"c", "y">>
v_pp == <<"p", "p">>
v_qq == <<"q", "q">>
v_Large == <<"L", "a", "r", "g", "e">>
v_Small == <<"S", "m", "a", "l", "l">>
v_cmd == <<"R", " ", "x">>
v_ok == <<"o", "k">>
v_env == <<"e", "n", "v">>
v_ttl == <<"t", "t", "l">>

\* timestamps: 19700 is a time in seconds (about 2023) and 19700000 the same time in
\* milliseconds, both in units of 86400

\* raw events returned by the audit API
ItemMinimal == EmptyDict
ItemRun ==
    JDict(<< <<s_timestamp, JNum(19700)>>,
             <<s_targets, JList(<< JDict(<< <<s_entity,
                   JDict(<< <<s_id, JStr(v_r1)>>, <<s_entityType, JStr(s_Run)>> >>)>> >>) >>)>> >>)
ItemJob ==
    JDict(<< <<s_timestamp, JNum(19700000)>>,
             <<s_runId, JStr(v_r2)>>,
             <<s_actor, JDict(<< <<s_name, JStr(v_al)>> >>)>>,
             <<s_metadata, JDict(<< <<s_jobId, JStr(v_j1)>> >>)>> >>)
ItemBadActor == JDict(<< <<s_actor, JStr(v_al)>> >>)
ItemNotDict == JStr(v_al)

RichItems == {ItemRun, ItemJob}

Runs1(item, k) == <<[item |-> item, n |-> k]>>

\* page bodies of at most l filler events
FillerPages(l) ==
    IF l = 0 THEN {JEvents(<<>>)}
    ELSE { JEvents(Runs1(ItemMinimal, l)),
           JEvents(IF l = 1 THEN <<>> ELSE Runs1(ItemMinimal, l - 1)),
           JEvents(IF l = 1 THEN Runs1(ItemNotDict, 1)
                   ELSE Runs1(ItemNotDict, 1) \o Runs1(ItemMinimal, l - 1)) }

\* page bodies of at most l events carrying ids and timestamps
RichPages(l) ==
    IF l = 0 THEN {}
    ELSE { JEvents(Runs1(a, 1)) : a \in RichItems \cup {ItemBadActor} }
         \cup (IF l >= 2 THEN { JEvents(Runs1(ItemRun, 1) \o Runs1(ItemJob, 1)),
                                JEvents(Runs1(ItemJob, 2)),
                                JDict(<< <<s_events, JEvents(Runs1(ItemJob, 1) \o Runs1(ItemRun, 1))>> >>) }
               ELSE {})

\* bodies that are not a list of events
OddPages ==
    { JDict(<< <<s_events, JNull>> >>),
      JDict(<< <<s_name, JStr(v_al)>> >>) }

\* exchanges of the first request for page limit l
FirstExchanges(l) ==
    { RespOk(b) : b \in FillerPages(l) \cup RichPages(l) \cup OddPages }
    \cup { RespBadJson, RespStatus(404), RespStatus(500), RespExc }

\* exchanges of a later page request for page limit l
PageExchanges(l) ==
    { RespOk(b) : b \in FillerPages(l) } \cup { RespStatus(500), RespExc }

\* /hardwareTier exchanges
HwRecord(name) == JDict(<< <<s_id, JStr(v_h1)>>, <<s_name, JStr(name)>> >>)
HwExchanges == { RespExc, RespOk(JList(<<HwRecord(v_Large)>>)) }

\* /controlCenter/utilization/runs exchanges
BulkRecord(id, user, project) ==
    JDict(<< <<s_id, JStr(id)>>,
             <<s_runDurationInSeconds, JNum(5)>>,
             <<s_hardwareTierId, JStr(v_h1)>>,
             <<s_projectIdentity, JStr(project)>>,
             <<s_startingUserFullName, JStr(user)>>,
             <<s_runType, JStr(s_Job)>> >>)
BulkExchanges ==
    { RespStatus(500), RespExc, RespBadJson,
      RespOk(JList(<< BulkRecord(v_r1, v_bo, v_pp), BulkRecord(v_r2, v_bo, s_Unknown) >>)),
      RespOk(JList(<< BulkRecord(v_r2, s_Unknown, v_pp) >>)) }

\* /v4/runs/{id} exchanges
RunRecord ==
    JDict(<< <<s_command, JStr(v_cmd)>>,
             <<s_status, JStr(v_ok)>>,
             <<s_runDurationInSeconds, JNum(7)>>,
             <<s_hardwareTierName, JStr(v_Small)>>,
             <<s_projectIdentity, JStr(v_qq)>>,
             <<s_userName, JStr(v_cy)>>,
             <<s_title, JStr(v_ttl)>>,
             <<s_environmentDetails, JDict(<< <<s_name, JStr(v_env)>> >>)>> >>)
RunExchanges == { RespStatus(404), RespExc, RespOk(RunRecord), RespOk(JList(<<>>)) }

\* /v4/jobs/{id} and /v4/jobs/{id}/runtimeExecutionDetails exchanges
JobRecord ==
    JDict(<< <<s_jobRunCommand, JStr(v_cmd)>>,
             <<s_statuses, JDict(<< <<s_executionStatus, JStr(s_Unknown)>> >>)>>,
             <<s_status, JStr(v_ok)>>,
             <<s_hardwareTier, JStr(v_Small)>>,
             <<s_startedBy, JDict(<< <<s_username, JStr(v_cy)>> >>)>>,
             <<s_stageTime, JDict(<< <<s_completedTime, JNum(9500)>>,
                                     <<s_runStartTime, JNum(1000)>> >>)>>,
             <<s_runDurationInSeconds, JNum(7)>>,
             <<s_projectName, JStr(v_qq)>> >>)
JobRuntimeRecord ==
    JDict(<< <<s_environment, JDict(<< <<s_environmentName, JStr(v_env)>> >>)>>,
             <<s_title, JStr(v_ttl)>> >>)
JobExchanges == { RespExc, RespOk(JobRecord) }
JobRuntimeExchanges == { RespStatus(500), RespOk(JobRuntimeRecord) }

NoExchange == [kind |-> "none", status |-> 0, body |-> JNull]
\* no enrichment response received yet
NoUpstream == [hw |-> NoExchange, runs |-> NoExchange, run |-> <<>>, job |-> <<>>]

SeqToSet(s) == {s[i] : i \in 1..Len(s)}

\* the exchanges of the Runs stage, one per id looked up
RunExchangeMaps(ids) == [SeqToSet(ids) -> RunExchanges]
\* the exchanges of the Jobs stage, two per id looked up
JobExchangeMaps(ids) ==
    { [k \in SeqToSet(ids) \X {1, 2} |-> IF k[2] = 1 THEN f[k[1]] ELSE g[k[1]]] :
        f \in [SeqToSet(ids) -> JobExchanges], g \in [SeqToSet(ids) -> JobRuntimeExchanges] }

(***************************************************************************)
(* Initial states of a request.                                            *)
(***************************************************************************)
BaseCfg ==
    [ audit_host |-> TRUE, audit_path |-> p_a, fallback_paths |-> <<>>,
      max_limit |-> 2, pagination_cap |-> 5,
      cc_enabled |-> FALSE, runs_enabled |-> FALSE, jobs_enabled |-> FALSE,
      domino_host |-> FALSE, runs_max |-> MaxIdCap, jobs_max |-> MaxIdCap ]

LimitAbsent == [kind |-> "absent", n |-> 0]
LimitNotInt == [kind |-> "bad", n |-> 0]
LimitInt(n) == [kind |-> "int", n |-> n]

BaseReq == [limit |-> LimitInt(2), offset |-> 0, auth_ok |-> TRUE]

\* small page limits and safety caps with every small limit parameter and offset
SmallPaging ==
    { <<[BaseCfg EXCEPT !.max_limit = m, !.pagination_cap = c],
        [BaseReq EXCEPT !.limit = l, !.offset = o]>> :
        m \in 0..MaxPageCap, c \in 1..MaxSafetyCap,
        l \in {LimitAbsent, LimitNotInt, LimitInt(-1)} \cup {LimitInt(n) : n \in 0..MaxLimitParam},
        o \in 0..MaxOffsetParam }

\* the default page limit with the default safety cap and with one that is not a multiple
ScenarioPaging ==
    { <<[BaseCfg EXCEPT !.max_limit = DefaultMaxLimit, !.pagination_cap = c],
        [BaseReq EXCEPT !.limit = l]>> :
        c \in ScenarioLimits \cup {DefaultPaginationCap},
        l \in {LimitAbsent} \cup {LimitInt(n) : n \in ScenarioLimits} }

\* path configurations, with and without an audit host and credentials
Discovery ==
    { <<[BaseCfg EXCEPT !.audit_host = h, !.audit_path = p[1], !.fallback_paths = p[2]],
        [BaseReq EXCEPT !.auth_ok = a, !.limit = LimitInt(l)]>> :
        h \in BOOLEAN, p \in PathConfigs, a \in BOOLEAN, l \in {2, 3} }

\* enrichment switched on and off, with and without DOMINO_API_HOST
Enriching ==
    { <<[BaseCfg EXCEPT !.cc_enabled = f[1], !.runs_enabled = f[2], !.jobs_enabled = f[3],
                        !.domino_host = TRUE, !.runs_max = k, !.jobs_max = k],
        BaseReq>> : f \in BOOLEAN \X BOOLEAN \X BOOLEAN, k \in 1..MaxIdCap }
    \cup { <<[BaseCfg EXCEPT !.cc_enabled = TRUE, !.runs_enabled = TRUE, !.jobs_enabled = TRUE],
             BaseReq>> }
    \cup { <<[BaseCfg EXCEPT !.cc_enabled = TRUE, !.runs_enabled = TRUE, !.jobs_enabled = TRUE,
                             !.domino_host = TRUE],
             [BaseReq EXCEPT !.limit = LimitInt(3)]>> }

Requests == SmallPaging \cup ScenarioPaging \cup Discovery \cup Enriching

NormPending == [state |-> "pending"]

Init ==
    /\ \E cr \in Requests : cfg = cr[1] /\ req = cr[2]
    /\ pc = "start"
    /\ path_i = 1
    /\ working_path = NoPath
    /\ last_status = 0
    /\ last_err = JNull
    /\ page_limit = 0
    /\ offset = 0
    /\ raw_len = 0
    /\ all_events = <<>>
    /\ calls = <<>>
    /\ response = NoResponse
    /\ up = NoUpstream
    /\ last_stage = "none"
    /\ before = <<>>
    /\ raw_in = JNull
    /\ norm_out = NormPending

(***************************************************************************)
(* The steps of audit() (src/app.py:789-893): one per upstream exchange.   *)
(***************************************************************************)
handler_vars == <<path_i, working_path, last_status, last_err, page_limit, offset, raw_len,
                  all_events, calls, up, before>>
other_vars == <<cfg, req, last_stage, raw_in, norm_out>>

Fail(status, at) == response' = ErrorResponse(status, at) /\ pc' = "done"

\* src/app.py:793-808: credentials, limit parsing, first page limit
Begin ==
    /\ pc = "start"
    /\ IF ~req.auth_ok
       THEN /\ Fail(502, "auth")
            /\ UNCHANGED page_limit
       ELSE /\ page_limit' = FirstPageLimit(cfg, req)
            /\ pc' = "discover"
            /\ UNCHANGED response
    /\ UNCHANGED <<path_i, working_path, last_status, last_err, offset, raw_len, all_events, calls,
                   up, before>>
    /\ UNCHANGED other_vars

\* src/app.py:810-858: one turn of the path loop; a success carries the first page
TryPath ==
    /\ pc = "discover"
    /\ LET paths == AuditPathsToTry(cfg)
           path == paths[path_i]
       IN IF ~cfg.audit_host
          THEN \* requests.get raises MissingSchema for a URL without host
               /\ Fail(502, "discover")
               /\ UNCHANGED handler_vars
          ELSE \E r \in FirstExchanges(page_limit) :
               /\ calls' = Append(calls, Call("discover", path, page_limit, req.offset, 0,
                                              r.status, <<>>))
               /\ CASE r.kind = "exc" ->
                        /\ Fail(502, "discover")
                        /\ UNCHANGED <<path_i, working_path, last_status, last_err, offset, raw_len,
                                       all_events>>
                    [] r.kind = "status" ->
                        /\ last_status' = r.status
                        /\ last_err' = JStr(SanitizeUpstreamError(r.status, DataOf(r)))
                        /\ IF r.status # 404 \/ path_i = Len(paths)
                           THEN Fail(r.status, "discover") /\ UNCHANGED path_i
                           ELSE path_i' = path_i + 1 /\ UNCHANGED <<pc, response>>
                        /\ UNCHANGED <<working_path, offset, raw_len, all_events>>
                    [] OTHER ->
                        /\ working_path' = path
                        /\ UNCHANGED <<path_i, last_status, last_err>>
                        /\ IF ParseRaises(DataOf(r))
                           THEN Fail(502, "parse") /\ UNCHANGED <<offset, raw_len, all_events>>
                           ELSE IF PageNormRaises(ParseEvents(DataOf(r)))
                           THEN Fail(502, "normalize") /\ UNCHANGED <<offset, raw_len, all_events>>
                           ELSE /\ raw_len' = ListLen(ParseEvents(DataOf(r)))
                                /\ all_events' = NormalizePage(ParseEvents(DataOf(r)))
                                /\ offset' = page_limit
                                /\ pc' = "paginate"
                                /\ UNCHANGED response
               /\ UNCHANGED <<page_limit, up, before>>
    /\ UNCHANGED other_vars

\* src/app.py:862-867: the loop condition is true
NextPage ==
    /\ pc = "paginate"
    /\ MorePages(cfg, req, all_events, raw_len, offset)
    /\ pc' = "page"
    /\ UNCHANGED <<response, handler_vars, other_vars>>

\* src/app.py:868-882: the body of the pagination loop
FetchPage ==
    /\ pc = "page"
    /\ \E r \in PageExchanges(cfg.max_limit) :
        /\ calls' = IF Len(calls) < MaxCallLog
                    THEN Append(calls, Call("page", working_path, cfg.max_limit, offset,
                                            ListLen(all_events), r.status, <<>>))
                    ELSE calls
        /\ CASE r.kind = "exc" ->
                 /\ Fail(502, "page")
                 /\ UNCHANGED <<offset, raw_len, all_events>>
             [] r.kind = "status" ->
                 /\ pc' = "bulk"
                 /\ UNCHANGED <<response, offset, raw_len, all_events>>
             [] OTHER ->
                 IF ParseRaises(DataOf(r))
                 THEN Fail(502, "parse") /\ UNCHANGED <<offset, raw_len, all_events>>
                 ELSE IF PageNormRaises(ParseEvents(DataOf(r)))
                 THEN Fail(502, "normalize") /\ UNCHANGED <<offset, raw_len, all_events>>
                 ELSE /\ raw_len' = ListLen(ParseEvents(DataOf(r)))
                      /\ all_events' = Join(all_events, NormalizePage(ParseEvents(DataOf(r))))
                      /\ offset' = offset + cfg.max_limit
                      /\ pc' = IF raw_len' < cfg.max_limit THEN "bulk" ELSE "paginate"
                      /\ UNCHANGED response
    /\ UNCHANGED <<path_i, working_path, last_status, last_err, page_limit, up, before>>
    /\ UNCHANGED other_vars

\* src/app.py:862-867: the loop condition is false
EndPages ==
    /\ pc = "paginate"
    /\ ~MorePages(cfg, req, all_events, raw_len, offset)
    /\ pc' = "bulk"
    /\ UNCHANGED <<response, handler_vars, other_vars>>

\* src/app.py:885: the bulk stage with its two exchanges
EnrichBulk ==
    /\ pc = "bulk"
    /\ LET ks == BulkCalls(cfg, all_events) IN
       \E hw \in (IF ks = <<>> THEN {NoExchange} ELSE HwExchanges),
          rr \in (IF ks = <<>> THEN {NoExchange} ELSE BulkExchanges) :
          LET res == BulkStage(cfg, all_events, hw, rr) IN
          /\ calls' = calls \o EnrichCalls(ks)
          /\ up' = [up EXCEPT !.hw = hw, !.runs = rr]
          /\ before' = all_events
          /\ IF res.raised
             THEN Fail(502, "bulk") /\ UNCHANGED all_events
             ELSE all_events' = res.events /\ pc' = "runs" /\ UNCHANGED response
    /\ UNCHANGED <<path_i, working_path, last_status, last_err, page_limit, offset, raw_len>>
    /\ UNCHANGED other_vars

\* src/app.py:887: the Runs stage with one exchange per id
EnrichRuns ==
    /\ pc = "runs"
    /\ LET ks == RunsCalls(cfg, all_events) IN
       \E f \in RunExchangeMaps([i \in 1..Len(ks) |-> ks[i].id]) :
          /\ calls' = calls \o EnrichCalls(ks)
          /\ up' = [up EXCEPT !.run = f]
          /\ all_events' = RunsStage(cfg, all_events, f)
          /\ pc' = "jobs"
    /\ UNCHANGED <<response, path_i, working_path, last_status, last_err, page_limit, offset, raw_len,
                   before>>
    /\ UNCHANGED other_vars

\* src/app.py:888-890: the Jobs stage with two exchanges per id, then the response
EnrichJobs ==
    /\ pc = "jobs"
    /\ LET ks == JobsCalls(cfg, all_events) IN
       \E f \in JobExchangeMaps(JobIds(all_events, cfg.jobs_max)) :
          LET g == IF ks = <<>> THEN <<>> ELSE f
              res == JobsStage(cfg, all_events, g) IN
          /\ calls' = calls \o EnrichCalls(ks)
          /\ up' = [up EXCEPT !.job = g]
          /\ IF res.raised
             THEN Fail(502, "jobs") /\ UNCHANGED all_events
             ELSE /\ all_events' = res.events
                  /\ response' = EventsResponse(res.events)
                  /\ pc' = "done"
    /\ UNCHANGED <<path_i, working_path, last_status, last_err, page_limit, offset, raw_len, before>>
    /\ UNCHANGED other_vars

Next ==
    Begin \/ TryPath \/ NextPage \/ FetchPage \/ EndPages \/ EnrichBulk \/ EnrichRuns \/ EnrichJobs

Spec == Init /\ [][Next]_vars

\* the handler does not halt midway: every step up to its last, the Jobs stage, is taken
\* once it can be taken, each upstream request being answered or failing within its timeout
LiveSpec ==
    Spec /\ WF_vars(Begin \/ TryPath \/ NextPage \/ FetchPage \/ EndPages \/ EnrichBulk \/ EnrichRuns)

(***************************************************************************)
(* Stage specification: the three enrichment stages as functions, applied  *)
(* in any order, any number of times, to events produced by the normaliser *)
(* under upstream exchanges that stay fixed.                               *)
(***************************************************************************)
ItemUnknown ==
    JDict(<< <<s_timestamp, JNum(19700)>>,
             <<s_runId, JStr(v_r1)>>,
             <<s_durationSec, JNum(0)>>,
             <<s_withinProjectName, EmptyStr>>,
             <<s_actor, JDict(<< <<s_name, JStr(s_Unknown)>> >>)>>,
             <<s_metadata, JDict(<< <<s_jobId, JStr(v_j1)>>, <<s_status, JStr(v_ok)>> >>)>> >>)
ItemJobSeconds ==
    JDict(<< <<s_timestamp, JNum(19701)>>,
             <<s_runId, JStr(v_r2)>>,
             <<s_metadata, JDict(<< <<s_Job, JStr(v_j1)>>, <<s_Hardware_Tier, JStr(v_Large)>> >>)>> >>)

\* a run event without a timestamp
ItemNoTimestamp ==
    JDict(<< <<s_runId, JStr(v_r1)>>,
             <<s_metadata, JDict(<< <<s_jobId, JStr(v_j1)>> >>)>> >>)

\* an event whose run and job ids are the placeholder "Unknown"
ItemUnknownIds ==
    JDict(<< <<s_timestamp, JNum(19700)>>,
             <<s_runId, JStr(s_Unknown)>>,
             <<s_metadata, JDict(<< <<s_jobId, JStr(s_unknown)>> >>)>> >>)

\* an event of a second job
ItemJobTwo ==
    JDict(<< <<s_timestamp, JNum(19701)>>,
             <<s_runId, JStr(v_r2)>>,
             <<s_metadata, JDict(<< <<s_jobId, JStr(v_j2)>> >>)>> >>)

StageItems ==
    {ItemMinimal, ItemRun, ItemJob, ItemUnknown, ItemJobSeconds, ItemNoTimestamp, ItemUnknownIds}

StageInputs ==
    { NormalizePage(Runs1(a, 1)) : a \in StageItems }
    \cup { NormalizePage(Runs1(a, 1) \o Runs1(b, 2)) :
             a \in {ItemRun, ItemUnknown, ItemUnknownIds},
             b \in {ItemJob, ItemJobSeconds, ItemJobTwo} }

\* the same exchange for both runs, or a failure for the first and a record for the second
StageRunMaps ==
    { [id \in {v_r1, v_r2} |-> x] : x \in RunExchanges }
    \cup { [id \in {v_r1, v_r2} |-> IF id = v_r1 THEN x ELSE RespOk(RunRecord)] :
             x \in RunExchanges \ {RespOk(RunRecord)} }

\* the same exchanges for both jobs, or failures for one job and records for the other
StageJobMaps ==
    { [k \in {v_j1, v_j2} \X {1, 2} |-> f[<<v_j1, k[2]>>]] : f \in JobExchangeMaps(<<v_j1>>) }
    \cup { [k \in {v_j1, v_j2} \X {1, 2} |->
                IF k[1] = j THEN (IF k[2] = 1 THEN RespExc ELSE RespStatus(500))
                ELSE (IF k[2] = 1 THEN RespOk(JobRecord) ELSE RespOk(JobRuntimeRecord))] :
             j \in {v_j1, v_j2} }

StageUpstreams ==
    { [hw |-> h, runs |-> b, run |-> r, job |-> j] :
        h \in HwExchanges, b \in BulkExchanges, r \in StageRunMaps, j \in StageJobMaps }

StageConfigs ==
    { [BaseCfg EXCEPT !.cc_enabled = TRUE, !.runs_enabled = TRUE, !.jobs_enabled = TRUE,
                      !.domino_host = TRUE, !.runs_max = k, !.jobs_max = k] : k \in 0..MaxIdCap }
    \cup { [BaseCfg EXCEPT !.cc_enabled = TRUE, !.runs_enabled = TRUE, !.jobs_enabled = TRUE] }
    \cup { [BaseCfg EXCEPT !.domino_host = TRUE] }

StageInit ==
    /\ cfg \in StageConfigs
    /\ req = BaseReq
    /\ pc = "stage"
    /\ path_i = 1
    /\ working_path = NoPath
    /\ last_status = 0
    /\ last_err = JNull
    /\ page_limit = 0
    /\ offset = 0
    /\ raw_len = 0
    /\ all_events \in StageInputs
    /\ calls = <<>>
    /\ response = NoResponse
    /\ up \in StageUpstreams
    /\ last_stage = "none"
    /\ before = all_events
    /\ raw_in = JNull
    /\ norm_out = NormPending

stage_frame == <<cfg, req, pc, path_i, working_path, last_status, last_err, page_limit, offset, raw_len,
                 response, up, raw_in, norm_out>>

\* events = _enrich_events_bulk_from_control_center(events, headers); calls holds the
\* upstream calls of the stage applied last
StageBulk ==
    /\ pc = "stage"
    /\ calls' = EnrichCalls(BulkCalls(cfg, all_events))
    /\ LET res == BulkStage(cfg, all_events, up.hw, up.runs) IN
       /\ before' = all_events
       /\ all_events' = res.events
       /\ last_stage' = IF res.raised THEN "raised" ELSE "bulk"
    /\ UNCHANGED stage_frame

\* events = _enrich_events_with_runs(events, headers)
StageRuns ==
    /\ pc = "stage"
    /\ calls' = EnrichCalls(RunsCalls(cfg, all_events))
    /\ before' = all_events
    /\ all_events' = RunsStage(cfg, all_events, up.run)
    /\ last_stage' = "runs"
    /\ UNCHANGED stage_frame

\* events = _enrich_events_with_jobs(events, headers)
StageJobs ==
    /\ pc = "stage"
    /\ calls' = EnrichCalls(JobsCalls(cfg, all_events))
    /\ LET res == JobsStage(cfg, all_events, up.job) IN
       /\ before' = all_events
       /\ all_events' = res.events
       /\ last_stage' = IF res.raised THEN "raised" ELSE "jobs"
    /\ UNCHANGED stage_frame

StageNext == StageBulk \/ StageRuns \/ StageJobs

StageSpec == StageInit /\ [][StageNext]_vars

(***************************************************************************)
(* Normaliser specification: _normalize_audit_event applied to one raw     *)
(* event whose substructures are absent, null, well-formed or of another   *)
(* type.                                                                   *)
(***************************************************************************)
Absent == [t |-> "absent"]

\* the dict with the given items, without those whose value is Absent
RECURSIVE Present(_)
Present(items) ==
    IF items = <<>> THEN <<>>
    ELSE IF Head(items)[2] = Absent THEN Present(Tail(items))
    ELSE <<Head(items)>> \o Present(Tail(items))

GoodEntity == JDict(<< <<s_id, JStr(v_r1)>>, <<s_entityType, JStr(s_Run)>>, <<s_name, JStr(v_ttl)>> >>)

ActorValues == { Absent, JNull, JDict(<< <<s_id, JStr(v_al)>>, <<s_name, JStr(v_al)>> >>), JStr(v_al) }
ActionValues ==
    { Absent, JNull, JNum(5),
      JDict(<< <<s_eventName, JStr(s_run)>>, <<s_using, JList(<< JDict(<< <<s_id, JStr(v_ok)>> >>) >>)>> >>) }
InValues == { Absent, JDict(<< <<s_name, JStr(v_pp)>> >>), JList(<<JNum(1)>>) }
TargetsValues ==
    { Absent, JNull, EmptyList,
      JList(<< JDict(<< <<s_entity, GoodEntity>> >>) >>),
      JList(<< JDict(<< <<s_entity, JNull>> >>) >>),
      JList(<< JDict(<< <<s_entity, JStr(v_al)>> >>) >>),
      JList(<< JNull >>),
      JStr(v_al),
      JDict(<< <<s_entity, GoodEntity>> >>),
      JNum(5) }
AffectingValues ==
    { Absent, JNull,
      JList(<< JDict(<< <<s_entityType, JStr(s_environment)>>, <<s_name, JStr(v_env)>> >>) >>),
      JList(<< JDict(<< <<s_entityType, JNum(5)>> >>) >>),
      JDict(<< <<s_entityType, JStr(s_environment)>> >>),
      JStr(v_al),
      JNum(5) }
MetadataValues ==
    { Absent, JNull,
      JDict(<< <<s_runCommand, JStr(v_cmd)>> >>),
      JList(<< JDict(<< <<s_key, JStr(s_Run_Command)>>, <<s_value, JStr(v_cmd)>> >>) >>),
      JStr(v_al),
      JNum(5) }

NormInputs ==
    { JDict(Present(<< <<s_id, JStr(v_ok)>>, <<s_actor, a>>, <<s_action, ac>>, <<s_in, i>>,
                       <<s_targets, tg>>, <<s_affecting, af>>, <<s_metadata, m>> >>)) :
        a \in ActorValues, ac \in ActionValues, i \in InValues, tg \in TargetsValues,
        af \in AffectingValues, m \in MetadataValues }

NormInit ==
    /\ cfg = BaseCfg
    /\ req = BaseReq
    /\ pc = "norm"
    /\ path_i = 1
    /\ working_path = NoPath
    /\ last_status = 0
    /\ last_err = JNull
    /\ page_limit = 0
    /\ offset = 0
    /\ raw_len = 0
    /\ all_events = <<>>
    /\ calls = <<>>
    /\ response = NoResponse
    /\ up = NoUpstream
    /\ last_stage = "none"
    /\ before = <<>>
    /\ raw_in \in NormInputs
    /\ norm_out = NormPending

\* _normalize_audit_event(raw)
NormalizeEvent ==
    /\ pc = "norm"
    /\ norm_out' = Normalize(raw_in)
    /\ pc' = "normed"
    /\ UNCHANGED <<cfg, req, path_i, working_path, last_status, last_err, page_limit, offset, raw_len,
                   all_events, calls, response, up, last_stage, before, raw_in>>

NormNext == NormalizeEvent

NormSpec == NormInit /\ [][NormNext]_vars

(***************************************************************************)
(* Field specification: _normalize_audit_event applied to one well-formed  *)
(* raw event, drawn from families that exercise the candidates of each     *)
(* canonical field.                                                        *)
(***************************************************************************)
v_jupyter == <<"j", "u", "p", "y", "t", "e", "r", " ", "n", "b">>
v_r9 == <<"r", "9">>
v_j9 == <<"j", "9">>
v_e1 == <<"e", "1">>
v_e2 == <<"e", "2">>

\* str values with surrounding blanks, and blank ones
Padded(s) == <<" ">> \o s \o <<" ", " ">>
BlankStr == <<" ">>

\* event names: only the first has none of the words workspace, job, app, run
EventNames == { <<"U", "n", "k", "n", "o", "w", "n", " ", "E", "v", "e", "n", "t">>, <<"S", "t", "a", "r", "t", " ", "R", "u", "n">>, <<"C", "o", "m", "p", "l", "e", "t", "e", " ", "J", "o", "b">>, <<"P", "u", "b", "l", "i", "s", "h", " ", "A", "p", "p">>,
                <<"S", "t", "o", "p", " ", "W", "o", "r", "k", "s", "p", "a", "c", "e">>, <<"R", "u", "n", " ", "W", "o", "r", "k", "s", "p", "a", "c", "e", " ", "J", "o", "b">> }

\* events that carry little more than id, timestamp and action.eventName
MinimalInputs ==
    { JDict(Present(<< <<s_id, i>>, <<s_timestamp, ts>>, <<s_actor, a>>, <<s_action, ac>>,
                       <<s_in, cin>>, <<s_targets, tg>>, <<s_affecting, af>>,
                       <<s_metadata, m>>, <<s_command, c>> >>)) :
        i \in {Absent, JStr(v_ok)},
        ts \in {Absent, JNum(19700)},
        a \in {Absent, EmptyDict},
        ac \in {Absent} \cup { JDict(<< <<s_eventName, JStr(e)>> >>) : e \in EventNames },
        cin \in {Absent, JDict(<< <<s_name, JStr(v_pp)>> >>)},
        tg \in {Absent, EmptyList},
        af \in {Absent, JList(<< JDict(<< <<s_entityType, JStr(s_hardwareTier)>>,
                                          <<s_name, JStr(v_Large)>>,
                                          <<s_id, JStr(v_h1)>> >>) >>)},
        m \in {Absent, EmptyDict},
        c \in {Absent, JStr(v_cmd)} }

\* metadata keys in several spellings, each with the canonical field it feeds
CommandKeys == { <<"R", "u", "n", " ", "C", "o", "m", "m", "a", "n", "d">>, <<"r", "u", "n", "C", "o", "m", "m", "a", "n", "d">>, <<"r", "u", "n", "_", "c", "o", "m", "m", "a", "n", "d">>, <<"R", "U", "N", "-", "C", "O", "M", "M", "A", "N", "D">>,
                 <<"C", "o", "m", "m", "a", "n", "d">>, <<"C", "O", "M", "M", "A", "N", "D">> }
HardwareKeys == { <<"H", "a", "r", "d", "w", "a", "r", "e", " ", "T", "i", "e", "r">>, <<"h", "a", "r", "d", "w", "a", "r", "e", "T", "i", "e", "r">>, <<"h", "a", "r", "d", "w", "a", "r", "e", "_", "t", "i", "e", "r">>, <<"H", "A", "R", "D", "W", "A", "R", "E", "-", "T", "I", "E", "R">> }
EnvironmentKeys == { <<"E", "n", "v", "i", "r", "o", "n", "m", "e", "n", "t">>, <<"E", "N", "V", "I", "R", "O", "N", "M", "E", "N", "T">>, <<"e", "n", "v", "i", "r", "o", "n", "m", "e", "n", "t">>,
                     <<"E", "n", "v", "i", "r", "o", "n", "m", "e", "n", "t", " ", "N", "a", "m", "e">>, <<"e", "n", "v", "i", "r", "o", "n", "m", "e", "n", "t", "_", "n", "a", "m", "e">>, <<"E", "N", "V", "I", "R", "O", "N", "M", "E", "N", "T", "-", "N", "A", "M", "E">>,
                     <<"e", "n", "v", "i", "r", "o", "n", "m", "e", "n", "t", "N", "a", "m", "e">> }
SpelledKeys == CommandKeys \cup HardwareKeys \cup EnvironmentKeys

KeyValues == { v_cmd, Padded(v_cmd), BlankStr }

\* events whose metadata has one spelled key
SingleKeyInputs ==
    { JDict(<< <<s_id, JStr(v_ok)>>, <<s_metadata, JDict(<< <<k, JStr(v)>> >>)>> >>) :
        k \in SpelledKeys, v \in KeyValues }

\* events whose metadata has two spellings of one normalised key, with different values
DoubleKeyInputs ==
    { JDict(<< <<s_id, JStr(v_ok)>>,
               <<s_metadata, JDict(<< <<kk[1], JStr(vv[1])>>, <<kk[2], JStr(vv[2])>> >>)>> >>) :
        kk \in { p \in SpelledKeys \X SpelledKeys : p[1] # p[2] /\ NormKey(p[1]) = NormKey(p[2]) },
        vv \in { <<v_cmd, v_jupyter>>, <<Padded(v_cmd), v_jupyter>>, <<v_cmd, BlankStr>> } }

\* stage times in ms, small enough for TLC's integers: 4000000 and 0 are as far apart as
\* 1740415000000 and 1740411000000
TimeValues ==
    { Absent, JNull, JNum(0), JNum(4000000), JNum(4000500), JStr(<<"4", "0", "0", "0", "0", "0", "0">>), JBool(TRUE) }

StageTimes ==
    {Absent} \cup { JDict(Present(<< <<s_runStartTime, s>>, <<s_completedTime, c>> >>)) :
                      s \in TimeValues, c \in TimeValues }

\* events with a stageTime and with earlier duration candidates that may or may not parse
DurationInputs ==
    { JDict(Present(<< <<s_id, JStr(v_ok)>>, <<s_durationSec, ds>>,
                       <<s_metadata, JDict(Present(<< <<s_Run_Duration, rd>>,
                                                      <<s_stageTime, st>> >>))>> >>)) :
        ds \in {Absent, JNull, JStr(<<"a", "b", "c">>)},
        rd \in {Absent, JStr(<<"n", "/", "a">>), JStr(<<"1", "2", ".", "5">>), JNum(7)},
        st \in StageTimes }

\* affecting[] entries: an entity type in some casing and a name that may be absent,
\* empty, blank, a str or a number
AffectingEntries ==
    { JDict(Present(<< <<s_entityType, JStr(ty)>>, <<s_name, nm>> >>)) :
        ty \in { s_environment, s_Environment, s_hardwareTier, <<"d", "a", "t", "a", "s", "e", "t">> },
        nm \in { Absent, EmptyStr, JStr(BlankStr), JStr(v_e1), JStr(v_e2), JNum(5) } }

\* events with one or two affecting[] entries and nothing else that names an environment
\* or a hardware tier
AffectingInputs ==
    { JDict(<< <<s_id, JStr(v_ok)>>, <<s_affecting, JList(<<a>>)>> >>) : a \in AffectingEntries }
    \cup { JDict(<< <<s_id, JStr(v_ok)>>, <<s_affecting, JList(<<a, b>>)>> >>) :
             a \in AffectingEntries, b \in AffectingEntries }

\* custom attributes: one or two keys, each with a value that may be null or empty
AttributeKeys == { s_Hardware_Tier, s_Run_Command }
AttributeValues == { JNull, EmptyStr, JStr(v_Large), JStr(v_cmd) }
AttributeItems ==
    { << <<k, v>> >> : k \in AttributeKeys, v \in AttributeValues }
    \cup { << <<kk[1], v>>, <<kk[2], w>> >> :
             kk \in { p \in AttributeKeys \X AttributeKeys : p[1] # p[2] },
             v \in AttributeValues, w \in AttributeValues }

\* the same attributes as a mapping, and as a list of {key, value} items
MappingForm(items) == JDict(items)
ListForm(items) ==
    JList([i \in 1..Len(items) |->
              JDict(<< <<s_key, JStr(items[i][1])>>, <<s_value, items[i][2]>> >>)])

\* the event of a run whose target carries the given customAttributes
AttributeEvent(m, attrs) ==
    JDict(Present(<< <<s_id, JStr(v_ok)>>,
                     <<s_targets, JList(<< JDict(<<
                          <<s_entity, JDict(<< <<s_id, JStr(v_r1)>>,
                                               <<s_entityType, JStr(s_Run)>> >>)>>,
                          <<s_customAttributes, attrs>> >>) >>)>>,
                     <<s_metadata, m>> >>))

AttributeMetadata == { Absent, EmptyDict, JDict(<< <<s_Hardware_Tier, JStr(v_Small)>> >>) }

MappingInputs ==
    { AttributeEvent(m, MappingForm(items)) : m \in AttributeMetadata, items \in AttributeItems }
ListInputs ==
    { AttributeEvent(m, ListForm(items)) : m \in AttributeMetadata, items \in AttributeItems }

\* 342.5
v_duration == [t |-> "num", n |-> 342, m |-> 500]

RunTargets ==
    { Absent,
      JList(<< JDict(<< <<s_entity, JDict(<< <<s_id, JStr(v_r1)>>,
                                             <<s_entityType, JStr(s_Run)>> >>)>> >>) >>) }

\* events whose metadata carries the camelCase keys of the API
CamelInputs ==
    { JDict(Present(<< <<s_id, JStr(v_ok)>>, <<s_targets, tg>>,
                       <<s_metadata, JDict(Present(<< <<s_runCommand, c>>,
                                                      <<s_hardwareTierName, h>>,
                                                      <<s_runId, r>>,
                                                      <<s_executionStatus, s>>,
                                                      <<s_runDurationSec, d>> >>))>> >>)) :
        tg \in RunTargets,
        c \in {Absent, JStr(v_cmd), JStr(Padded(v_cmd))},
        h \in {Absent, JStr(v_Large)},
        r \in {Absent, JStr(v_r9)},
        s \in {Absent, JStr(v_ok)},
        d \in {Absent, v_duration} }

\* events whose metadata carries the title-case keys of the UI
TitleInputs ==
    { JDict(Present(<< <<s_id, JStr(v_ok)>>, <<s_targets, tg>>,
                       <<s_metadata, JDict(Present(<< <<s_Run_Origin, o>>,
                                                      <<s_Run_Command, c>>,
                                                      <<s_Run_File, f>>,
                                                      <<s_Run, r>>,
                                                      <<s_Environment, e>>,
                                                      <<s_Hardware_Tier, h>> >>))>> >>)) :
        tg \in RunTargets,
        o \in {Absent, JStr(v_al)},
        c \in {Absent, JStr(v_cmd), JStr(Padded(v_cmd))},
        f \in {Absent, JStr(v_ttl)},
        r \in {Absent, JStr(v_r9)},
        e \in {Absent, JStr(v_env)},
        h \in {Absent, JStr(v_Small)} }

\* events with an actor id, a target entity id (r1) and metadata-derived ids (r9, j9)
IdInputs ==
    { JDict(Present(<< <<s_id, JStr(v_ok)>>, <<s_actor, a>>,
                       <<s_targets, JList(<< JDict(<< <<s_entity,
                            JDict(<< <<s_id, JStr(v_r1)>>, <<s_entityType, JStr(ty)>> >>)>> >>) >>)>>,
                       <<s_metadata, JDict(Present(<< <<s_Run, r>>, <<s_runId, ri>>,
                                                      <<s_executionId, x>>, <<s_jobId, ji>>,
                                                      <<s_Job, j>> >>))>> >>)) :
        a \in {Absent, JDict(<< <<s_id, JStr(v_al)>>, <<s_userId, JStr(v_bo)>> >>)},
        ty \in {s_Run, s_job, <<"J", "O", "B">>, s_app},
        r \in {Absent, JStr(v_r9)},
        ri \in {Absent, JStr(v_r9)},
        x \in {Absent, JStr(v_r9)},
        ji \in {Absent, JStr(v_j9)},
        j \in {Absent, JStr(v_j9)} }

\* for each extracted field: its name on the raw event, one exact metadata key and one
\* spelling that only the case-insensitive lookup could resolve
PriorityStrFields ==
    { [field |-> "command", name |-> s_command, exact |-> s_runCommand, ci |-> <<"r", "u", "n", "_", "c", "o", "m", "m", "a", "n", "d">>],
      [field |-> "status", name |-> s_status, exact |-> s_executionStatus, ci |-> <<"e", "x", "e", "c", "u", "t", "i", "o", "n", "_", "s", "t", "a", "t", "u", "s">>],
      [field |-> "computeTier", name |-> s_computeTier, exact |-> s_computeSize, ci |-> <<"c", "o", "m", "p", "u", "t", "e", "_", "t", "i", "e", "r">>],
      [field |-> "hardwareTier", name |-> s_hardwareTier, exact |-> s_hardwareTierName, ci |-> <<"h", "a", "r", "d", "w", "a", "r", "e", "_", "t", "i", "e", "r">>],
      [field |-> "environmentName", name |-> s_environmentName, exact |-> s_Environment, ci |-> <<"e", "n", "v", "i", "r", "o", "n", "m", "e", "n", "t", "_", "n", "a", "m", "e">>],
      [field |-> "runId", name |-> s_runId, exact |-> s_executionId, ci |-> <<"r", "u", "n", "_", "i", "d">>],
      [field |-> "jobId", name |-> s_jobId, exact |-> s_Job, ci |-> <<"j", "o", "b", "_", "i", "d">>],
      [field |-> "runType", name |-> s_runType, exact |-> s_executionType, ci |-> <<"r", "u", "n", "_", "t", "y", "p", "e">>],
      [field |-> "runFile", name |-> s_runFile, exact |-> s_filename, ci |-> <<"r", "u", "n", "_", "f", "i", "l", "e">>],
      [field |-> "runOrigin", name |-> s_runOrigin, exact |-> s_source, ci |-> <<"r", "u", "n", "_", "o", "r", "i", "g", "i", "n">>] }

\* an event with a direct field, an exact metadata key, a case-insensitive-only key, an
\* event name and a target, any of them absent
PriorityEvent(p, a, b, c, ac, tg) ==
    JDict(Present(<< <<s_id, JStr(v_ok)>>, <<p.name, a>>, <<s_action, ac>>, <<s_targets, tg>>,
                     <<s_metadata, JDict(Present(<< <<p.exact, b>>, <<p.ci, c>> >>))>> >>))

StartRun == JDict(<< <<s_eventName, JStr(<<"S", "t", "a", "r", "t", " ", "R", "u", "n">>)>> >>)
WorkspaceTarget ==
    JList(<< JDict(<< <<s_entity, JDict(<< <<s_entityType, JStr(s_workspace)>>,
                                           <<s_name, JStr(v_ttl)>> >>)>> >>) >>)

PriorityInputs ==
    { PriorityEvent(p, a, b, c, ac, tg) :
        p \in PriorityStrFields,
        a \in {Absent, JStr(<<"A">>), JStr(BlankStr), JNum(5)},
        b \in {Absent, JStr(<<"B">>), EmptyStr},
        c \in {Absent, JStr(<<"C">>)},
        ac \in {Absent, StartRun},
        tg \in {Absent, WorkspaceTarget} }

\* the same for durationSec, whose candidates are numbers or strs that float() may parse
DurationPriorityInputs ==
    { JDict(Present(<< <<s_id, JStr(v_ok)>>, <<s_durationSec, a>>,
                       <<s_metadata, JDict(Present(<< <<s_runDurationSec, b>>,
                                                      <<s_runDurationSeconds, c>> >>))>> >>)) :
        a \in {Absent, JNum(5), JStr(<<"1", "2", ".", "5">>), JStr(<<"a", "b", "c">>), JStr(BlankStr)},
        b \in {Absent, JNum(7), JStr(<<"n", "/", "a">>)},
        c \in {Absent, JStr(<<" ", "9", " ">>)} }

FieldInputs == MinimalInputs \cup SingleKeyInputs \cup DoubleKeyInputs \cup DurationInputs \cup AffectingInputs
               \cup MappingInputs \cup ListInputs \cup CamelInputs \cup TitleInputs \cup IdInputs
               \cup PriorityInputs \cup DurationPriorityInputs

FieldInit ==
    /\ cfg = BaseCfg
    /\ req = BaseReq
    /\ pc = "norm"
    /\ path_i = 1
    /\ working_path = NoPath
    /\ last_status = 0
    /\ last_err = JNull
    /\ page_limit = 0
    /\ offset = 0
    /\ raw_len = 0
    /\ all_events = <<>>
    /\ calls = <<>>
    /\ response = NoResponse
    /\ up = NoUpstream
    /\ last_stage = "none"
    /\ before = <<>>
    /\ raw_in \in FieldInputs
    /\ norm_out = NormPending

FieldSpec == FieldInit /\ [][NormNext]_vars

(***************************************************************************)
(* Sanitiser specification: _sanitize_upstream_error applied to one status *)
(* code and one body, the parsed JSON or the text of an upstream response. *)
(***************************************************************************)
\* n times the character c
Pad(c, n) == [i \in 1..n |-> c]

SanitizeStatuses == {404, 500, 502}

\* bodies without markup, some longer than the text that is kept
PlainTexts ==
    { lead \o Pad("x", n) \o trail :
        lead \in {<<>>, <<" ", " ">>}, trail \in {<<>>, <<" ">>},
        n \in {0, 3, TruncateLen - 1, TruncateLen, TruncateLen + 1, TruncateLen + 140} }

\* bodies that open with a tag
TagTexts ==
    { lead \o <<"<", "h", "1", ">">> \o Pad("x", n) : lead \in {<<>>, <<" ", " ">>}, n \in {0, 3, TruncateLen + 1} }

\* bodies with a doctype ending before, at and after the first SniffLen characters
DoctypeTexts ==
    { lead \o Pad("x", k) \o m \o Pad("y", 3) :
        lead \in {<<>>, <<" ", " ">>},
        k \in {SniffLen - 20, SniffLen - 10, SniffLen - 9, SniffLen - 8, SniffLen, TruncateLen + 10},
        m \in {s_doctype, <<"<", "!", "D", "O", "C", "T", "Y", "P", "E">>} }

\* bodies with a closing html tag near the start and beyond the text that is kept
HtmlEndTexts ==
    { Pad("x", k) \o m \o Pad("y", 3) :
        k \in {5, SniffLen + 100, TruncateLen + 100}, m \in {s_html_end, <<"<", "/", "H", "T", "M", "L", ">">>} }

\* bodies parsed from JSON that are not a str
ParsedBodies ==
    { JNull, JNum(0), JNum(42), JBool(FALSE), EmptyDict,
      JDict(<< <<s_event, JStr(<<"n", "o", "t", " ", "f", "o", "u", "n", "d">>)>> >>),
      JDict(<< <<s_event, JStr(<<"<", "b", ">", "n", "o", "<", "/", "b", ">">>)>>, <<s_name, JStr(v_al)>> >>),
      JDict(<< <<s_event, JStr(<<"<", "h", "t", "m", "l", ">", "<", "/", "h", "t", "m", "l", ">">>)>> >>) }

SanitizeBodies ==
    ParsedBodies
    \cup { JStr(t) : t \in PlainTexts \cup TagTexts \cup DoctypeTexts \cup HtmlEndTexts }

SanitizeInit ==
    /\ cfg = BaseCfg
    /\ req = BaseReq
    /\ pc = "sanitize"
    /\ path_i = 1
    /\ working_path = NoPath
    /\ last_status \in SanitizeStatuses
    /\ last_err = JNull
    /\ page_limit = 0
    /\ offset = 0
    /\ raw_len = 0
    /\ all_events = <<>>
    /\ calls = <<>>
    /\ response = NoResponse
    /\ up = NoUpstream
    /\ last_stage = "none"
    /\ before = <<>>
    /\ raw_in \in SanitizeBodies
    /\ norm_out = NormPending

\* last_err = _sanitize_upstream_error(r.status_code, data) (src/app.py:822)
SanitizeError ==
    /\ pc = "sanitize"
    /\ last_err' = JStr(SanitizeUpstreamError(last_status, raw_in))
    /\ pc' = "sanitized"
    /\ UNCHANGED <<cfg, req, path_i, working_path, last_status, page_limit, offset, raw_len,
                   all_events, calls, response, up, last_stage, before, raw_in, norm_out>>

SanitizeNext == SanitizeError

SanitizeSpec == SanitizeInit /\ [][SanitizeNext]_vars

(***************************************************************************)
(* Properties.  Those of the enrichment stages are stated over StageSpec,  *)
(* those of the normaliser over NormSpec, the others over Spec.            *)
(***************************************************************************)
\* the canonical fields of an event, apart from the echo of the raw event
CanonicalFields == (DOMAIN NormEvent(ItemMinimal)) \ {"raw"}

StageApplied == last_stage \in {"bulk", "runs", "jobs"}

\* C1: fill-only-if-blank.  Whatever stage was applied last (bulk, Runs or Jobs), to
\* whatever events and under whatever upstream responses, every canonical field of every
\* event that was non-blank before the stage (not null, not "", not "Unknown") has the
\* same value after it, and the list keeps its events; as this holds of every stage
\* application it holds along every sequence of stages.
C1_FillOnlyIfBlank ==
    StageApplied =>
        /\ Len(all_events) = Len(before)
        /\ \A i \in 1..Len(before) :
            /\ all_events[i].n = before[i].n
            /\ all_events[i].item.raw = before[i].item.raw
            /\ \A f \in CanonicalFields :
                ~IsBlank(before[i].item[f]) => all_events[i].item[f] = before[i].item[f]

\* the bulk stage matched an event whose actorName was set, offered another name, filled
\* other fields of the event and left the name alone
C1_Witness ==
    /\ last_stage = "bulk"
    /\ all_events # before
    /\ \E i \in 1..Len(before) :
        LET run == BulkRunOf(before[i].item, BulkRunsById(up.runs)) IN
        /\ all_events[i].item # before[i].item
        /\ ~IsBlank(before[i].item.actorName)
        /\ ~IsEmptyValue(Get(run, s_startingUserFullName))
        /\ Get(run, s_startingUserFullName) # before[i].item.actorName
        /\ all_events[i].item.actorName = before[i].item.actorName

\* the fields both the bulk source and a per-ID source fill
PrecedenceFields == {"durationSec", "hardwareTier", "actorName", "withinProjectName"}

\* the value each source offers for field f of event ev of the request: what its stage
\* writes into the field when it finds it null, JNull when it offers none
BulkValue(ev, f) ==
    IF BulkSkipped(cfg, before) \/ BulkFetchFails(up.runs) THEN JNull
    ELSE BulkApply([ev EXCEPT ![f] = JNull], BulkRunsById(up.runs), HwTierNames(up.hw))[f]
RunsValue(ev, f) ==
    IF ~cfg.runs_enabled \/ ~cfg.domino_host THEN JNull
    ELSE RunsApply([ev EXCEPT ![f] = JNull], RunsById(RunIds(before, cfg.runs_max), up.run))[f]
JobsValue(ev, f) ==
    IF ~cfg.jobs_enabled \/ ~cfg.domino_host \/ JobIds(before, cfg.jobs_max) = <<>> THEN JNull
    ELSE JobsApply([ev EXCEPT ![f] = JNull], JobsById(JobIds(before, cfg.jobs_max), up.job))[f]

\* a per-ID source offers for the field a non-empty value other than bv
PerIdDiffers(ev, f, bv) ==
    \E pv \in {RunsValue(ev, f), JobsValue(ev, f)} : ~IsEmptyValue(pv) /\ pv # bv

\* C2 as stated: when a field (durationSec, hardwareTier, actorName, withinProjectName) is
\* blank after normalization and the bulk source and a per-ID source offer different
\* non-empty values for it, the final event carries the bulk source's value.
C2_BulkValueWins ==
    (pc = "done" /\ response.kind = "events") =>
        \A i \in 1..Len(before) : \A f \in PrecedenceFields :
            LET ev == before[i].item
                bv == BulkValue(ev, f)
            IN (IsBlank(ev[f]) /\ ~IsEmptyValue(bv) /\ PerIdDiffers(ev, f, bv))
                   => response.events[i].item[f] = bv

\* C2 as amended: the same, when the value the bulk source offers is itself non-blank
\* (not null, not "", not "Unknown"); an offered "Unknown" is written and then replaced
\* by the per-ID source's value.
C2_NonBlankBulkValueWins ==
    (pc = "done" /\ response.kind = "events") =>
        \A i \in 1..Len(before) : \A f \in PrecedenceFields :
            LET ev == before[i].item
                bv == BulkValue(ev, f)
            IN (IsBlank(ev[f]) /\ ~IsBlank(bv) /\ PerIdDiffers(ev, f, bv))
                   => response.events[i].item[f] = bv

\* a response whose event had a blank actorName for which the utilization record and the
\* run record offered different names
C2_Witness ==
    /\ pc = "done"
    /\ response.kind = "events"
    /\ \E i \in 1..Len(before) :
        LET ev == before[i].item
            bv == BulkValue(ev, "actorName")
        IN /\ IsBlank(ev.actorName)
           /\ ~IsBlank(bv)
           /\ ~IsEmptyValue(RunsValue(ev, "actorName"))
           /\ RunsValue(ev, "actorName") # bv
           /\ response.events[i].item.actorName = bv

\* C3: idempotence.  Under the same upstream responses, the stage applied last changes
\* no field of any event when it is applied again to the events it produced.
C3_StageIdempotent ==
    /\ last_stage = "bulk" =>
           BulkStage(cfg, all_events, up.hw, up.runs) = [raised |-> FALSE, events |-> all_events]
    /\ last_stage = "runs" => RunsStage(cfg, all_events, up.run) = all_events
    /\ last_stage = "jobs" =>
           JobsStage(cfg, all_events, up.job) = [raised |-> FALSE, events |-> all_events]

\* a stage that filled a field on its first application
C3_Witness == StageApplied /\ all_events # before /\ last_stage # "bulk"

\* C4 as stated: once the primary audit query has succeeded, no behaviour of the
\* enrichment sources and no mix of timestamps turns the response into an error envelope.
C4_EnrichmentNeverFatal ==
    (pc = "done" /\ working_path # NoPath /\ response.kind = "error")
        => response.at \notin {"bulk", "runs", "jobs"}

\* the requests for a page of events, in order: those of the path loop, then the later pages
PageRequests == SelectSeq(calls, LAMBDA k : k.kind \in {"discover", "page"})

\* C5 as stated: every page request asks for min(page cap, requested limit minus events
\* accumulated so far); with limit=2500 and a page cap of 1000 the requests ask for 1000,
\* 1000 and 500 and there are no more than three.
C5_PageSizes ==
    /\ \A k \in 1..Len(PageRequests) :
        PageRequests[k].limit = Min(cfg.max_limit, RequestedLimit(cfg, req) - PageRequests[k].acc)
    /\ (cfg.max_limit = 1000 /\ req.limit = LimitInt(2500) /\ cfg.pagination_cap >= 2500) =>
        /\ Len(PageRequests) <= 3
        /\ \A k \in 1..Len(PageRequests) : PageRequests[k].limit = <<1000, 1000, 500>>[k]

\* C6 as stated: when a page request after the first fails, by status or by timeout or
\* transport error, pagination stops and the response is a success carrying the events
\* accumulated before that request.
C6_PartialResultsOnPageFailure ==
    \A k \in 1..Len(calls) :
        (calls[k].kind = "page" /\ calls[k].status # 200) =>
            /\ \A j \in (k + 1)..Len(calls) : calls[j].kind # "page"
            /\ pc = "done" => (response.kind = "events"
                               /\ ListLen(response.events) = calls[k].acc)

\* C7 as stated: the events accumulated never exceed AUDIT_PAGINATION_CAP.
C7_SafetyCap == ListLen(all_events) <= cfg.pagination_cap

\* the requests of the path loop, in order
DiscoverCalls == SelectSeq(calls, LAMBDA k : k.kind = "discover")

\* the primary path, then the fallback paths, as configured
Configured ==
    <<WithSlash(cfg.audit_path)>>
    \o [i \in 1..Len(cfg.fallback_paths) |-> WithSlash(cfg.fallback_paths[i])]

\* the first configured path that is not among those tried
FirstUntried(tried) ==
    Configured[CHOOSE i \in 1..Len(Configured) :
                   /\ Configured[i] \notin tried
                   /\ \A j \in 1..(i - 1) : Configured[j] \in tried]

\* C8: path discovery order.  Each request of the path loop goes to the first configured
\* path (primary, then fallbacks in order) not requested before, and is made only after
\* every earlier path answered 404; a success makes its path the working path, which every
\* later page request uses; any other answer that is not 404 ends the request with that
\* status.
C8_PathDiscoveryOrder ==
    LET D == DiscoverCalls IN
    /\ \A i \in 1..Len(D) :
        LET tried == {D[j].path : j \in 1..(i - 1)} IN
        /\ \E k \in 1..Len(Configured) : Configured[k] \notin tried
        /\ D[i].path = FirstUntried(tried)
        /\ \A j \in 1..(i - 1) : D[j].status = 404
    /\ working_path # NoPath =>
        /\ Len(D) > 0
        /\ D[Len(D)].status = 200
        /\ working_path = D[Len(D)].path
    /\ \A k \in 1..Len(calls) : calls[k].kind = "page" =>
        /\ working_path # NoPath
        /\ calls[k].path = working_path
        /\ \A j \in (k + 1)..Len(calls) : calls[j].kind # "discover"
    /\ (pc = "done" /\ Len(D) > 0 /\ D[Len(D)].status >= 400) =>
        response = ErrorResponse(D[Len(D)].status, "discover")

\* the primary path answered 404, a fallback succeeded and served a later page
C8_Witness ==
    /\ Len(DiscoverCalls) >= 2
    /\ \E k \in 1..Len(calls) :
        /\ calls[k].kind = "page"
        /\ calls[k].path # WithSlash(cfg.audit_path)
        /\ calls[k].path = working_path

\* C9 as stated: a failed request answers 502 when the credentials or the primary fetch
\* fail at transport level, the upstream's status when the upstream answers non-2xx, and
\* 503 when the audit API host is not configured.
C9_ErrorStatus ==
    (pc = "done" /\ response.kind = "error") =>
        /\ ~req.auth_ok => response.status = 502
        /\ (req.auth_ok /\ ~cfg.audit_host) => response.status = 503
        /\ (req.auth_ok /\ cfg.audit_host /\ response.at = "discover") =>
            response.status = (IF calls[Len(calls)].status = 0 THEN 502
                               ELSE calls[Len(calls)].status)

\* C10 as stated: _normalize_audit_event never raises, whatever the type of the
\* substructures of the raw event.
C10_NormalizeNeverRaises == pc = "normed" => ~norm_out.raised

\* the optional fields of a canonical event
OptionalFields ==
    {"command", "status", "durationSec", "computeTier", "hardwareTier", "hardwareTierId",
     "environmentName", "runId", "jobId", "runType", "runFile", "runOrigin", "actorName"}

Normed == pc = "normed" /\ raw_in # JNull

\* the raw event has no targets, no metadata and no actor (absent, null or empty)
NoSubstructures(raw) ==
    /\ ~Truthy(Get(raw, s_targets))
    /\ ~Truthy(Get(raw, s_metadata))
    /\ ~Truthy(Get(raw, s_actor))

\* the raw event has nothing but id, timestamp and action.eventName
OnlyEventName(raw) ==
    /\ NoSubstructures(raw)
    /\ \A i \in 1..Len(raw.d) :
          raw.d[i][1] \in {s_id, s_timestamp, s_action, s_targets, s_metadata, s_actor}
    /\ HasKey(raw.d, s_action) =>
          /\ IsDict(Get(raw, s_action))
          /\ \A i \in 1..Len(Get(raw, s_action).d) : Get(raw, s_action).d[i][1] = s_eventName
          /\ IsStr(Get(Get(raw, s_action), s_eventName))

\* action.eventName, lowercased; empty without one
EventNameOf(raw) ==
    IF HasKey(raw.d, s_action) /\ IsDict(Get(raw, s_action))
          /\ IsStr(Get(Get(raw, s_action), s_eventName))
    THEN Lower(Get(Get(raw, s_action), s_eventName).s)
    ELSE <<>>

RunTypeWords ==
    { <<s_workspace, s_Workspace>>, <<s_job, s_Job>>, <<s_app, s_App>>, <<s_run, s_Run>> }

\* C11 as stated: for every raw event without targets, metadata and actor, whatever its
\* id, timestamp and action.eventName, normalisation does not raise and every optional
\* field of the canonical event is null.
C11_MinimalAllNull ==
    (Normed /\ NoSubstructures(raw_in)) =>
        /\ ~norm_out.raised
        /\ \A f \in OptionalFields : norm_out.ev[f] = JNull

\* C11 amended: for every raw event that carries nothing but id, timestamp and
\* action.eventName, normalisation does not raise, every optional field other than runType
\* is null, and runType is null exactly when the event name contains none of the words
\* workspace, job, app, run (in any casing); otherwise it is the type named by one of the
\* words the name contains.
C11_MinimalNullButRunType ==
    (Normed /\ OnlyEventName(raw_in)) =>
        /\ ~norm_out.raised
        /\ \A f \in OptionalFields \ {"runType"} : norm_out.ev[f] = JNull
        /\ (norm_out.ev.runType = JNull) <=>
               (\A w \in RunTypeWords : ~Contains(w[1], EventNameOf(raw_in)))
        /\ norm_out.ev.runType # JNull =>
               \E w \in RunTypeWords : /\ Contains(w[1], EventNameOf(raw_in))
                                       /\ norm_out.ev.runType = JStr(w[2])

\* a minimal event named "Start Run" was normalised, and its runType is "Run"
C11_Witness ==
    /\ Normed
    /\ OnlyEventName(raw_in)
    /\ Contains(s_run, EventNameOf(raw_in))
    /\ ~norm_out.raised
    /\ norm_out.ev.runType = JStr(s_Run)
    /\ norm_out.ev.command = JNull

\* the canonical field fed by a spelled metadata key
FieldOfKey(k) ==
    CASE k \in CommandKeys -> "command"
      [] k \in HardwareKeys -> "hardwareTier"
      [] k \in EnvironmentKeys -> "environmentName"

\* the i-th item of raw.metadata
MetaItem(raw, i) == Get(raw, s_metadata).d[i]

\* C12: case-insensitive key matching.  A metadata key for the command, the hardware tier
\* or the environment, in any casing and with any spaces, underscores or hyphens, alone in
\* the metadata and carrying a string, resolves to its canonical field (command,
\* hardwareTier, environmentName) with the trimmed value; every spelling gives the same
\* result, a value that is blank once trimmed giving null under every spelling.
C12_SpelledKeyResolves ==
    (Normed /\ raw_in \in SingleKeyInputs) =>
        LET k == MetaItem(raw_in, 1)[1]
            v == MetaItem(raw_in, 1)[2].s
        IN /\ ~norm_out.raised
           /\ Strip(v) # <<>> => norm_out.ev[FieldOfKey(k)] = JStr(Strip(v))
           /\ Strip(v) = <<>> => norm_out.ev[FieldOfKey(k)] = JNull

\* the key "RUN-COMMAND" with a padded value was normalised into command
C12_Witness ==
    /\ Normed
    /\ raw_in \in SingleKeyInputs
    /\ MetaItem(raw_in, 1)[1] = <<"R", "U", "N", "-", "C", "O", "M", "M", "A", "N", "D">>
    /\ MetaItem(raw_in, 1)[2].s = Padded(v_cmd)
    /\ norm_out.ev.command = JStr(v_cmd)

\* a duration candidate that _first_number accepts: a number, or a str that float() parses
YieldsNumber(v) == v.t \in {"num", "bool"} \/ (v.t = "str" /\ FloatParses(Strip(v.s)))

\* no candidate before the stage time yields a number
NoEarlierDuration(raw) ==
    /\ ~YieldsNumber(Get(raw, s_durationSec))
    /\ \A k \in {s_runDurationSec, s_runDurationSeconds, s_runDurationInSeconds, s_Run_Duration} :
          ~YieldsNumber(Get(Get(raw, s_metadata), k))

\* metadata.stageTime[k], null without a stageTime
StageTimeOf(raw, k) ==
    IF IsDict(Get(Get(raw, s_metadata), s_stageTime))
    THEN Get(Get(Get(raw, s_metadata), s_stageTime), k)
    ELSE JNull

\* the value of a Python number, True and False counting as 1 and 0
Ms(v) == IF v.t = "bool" THEN (IF v.b THEN 1 ELSE 0) ELSE v.n

\* C13: stage-time duration.  When no earlier duration candidate (raw durationSec,
\* runDurationSec, runDurationSeconds, runDurationInSeconds, "Run Duration") yields a
\* number: if completedTime and runStartTime of metadata.stageTime are both numbers (as
\* Python counts them, a bool being an int) and completedTime > runStartTime, durationSec
\* is (completedTime - runStartTime) / 1000; otherwise durationSec is null.
C13_StageTimeDuration ==
    (Normed /\ raw_in \in DurationInputs /\ NoEarlierDuration(raw_in)) =>
        LET c == StageTimeOf(raw_in, s_completedTime)
            s == StageTimeOf(raw_in, s_runStartTime)
        IN /\ ~norm_out.raised
           /\ IF c.t \in {"num", "bool"} /\ s.t \in {"num", "bool"} /\ Ms(c) > Ms(s)
              THEN norm_out.ev.durationSec =
                       [t |-> "num", n |-> (Ms(c) - Ms(s)) \div 1000, m |-> (Ms(c) - Ms(s)) % 1000]
              ELSE norm_out.ev.durationSec = JNull

\* stage times 4000000 ms apart (as 1740415000000 and 1740411000000 are), behind an
\* earlier candidate that does not parse, gave 4000.0
C13_Witness ==
    /\ Normed
    /\ raw_in \in DurationInputs
    /\ Get(Get(raw_in, s_metadata), s_Run_Duration) = JStr(<<"n", "/", "a">>)
    /\ StageTimeOf(raw_in, s_completedTime) = JNum(4000000)
    /\ StageTimeOf(raw_in, s_runStartTime) = JNum(0)
    /\ norm_out.ev.durationSec = [t |-> "num", n |-> 4000, m |-> 0]

\* the affecting[] entries of the given type (lowercased) whose name is a str that is not
\* blank, in list order
NamedEntries(raw, etype) ==
    SelectSeq(Get(raw, s_affecting).l,
              LAMBDA a : /\ IsStr(Get(a, s_entityType))
                         /\ Lower(Get(a, s_entityType).s) = etype
                         /\ IsStr(Get(a, s_name))
                         /\ Strip(Get(a, s_name).s) # <<>>)

\* C14: affecting[] fallback.  For every raw event without explicit environmentName and
\* hardwareTier fields and without such keys in metadata, when affecting[] has an entry of
\* type "environment" (resp. "hardwaretier", in any casing) whose name is a non-empty str,
\* environmentName (resp. hardwareTier) is the name of the first such entry in list order.
C14_AffectingFallback ==
    (Normed /\ raw_in \in AffectingInputs) =>
        /\ ~norm_out.raised
        /\ NamedEntries(raw_in, s_environment) # <<>> =>
               norm_out.ev.environmentName =
                   JStr(Strip(Get(NamedEntries(raw_in, s_environment)[1], s_name).s))
        /\ NamedEntries(raw_in, s_hardwaretier) # <<>> =>
               norm_out.ev.hardwareTier =
                   JStr(Strip(Get(NamedEntries(raw_in, s_hardwaretier)[1], s_name).s))

\* the event with target 0's customAttributes, a mapping, turned into list form
InListForm(raw) ==
    AttributeEvent(IF HasKey(raw.d, s_metadata) THEN Get(raw, s_metadata) ELSE Absent,
                   ListForm(Get(Get(raw, s_targets).l[1], s_customAttributes).d))

\* C15: list form equals mapping form.  For every set of custom attributes, also with
\* null or empty values and with a key that raw.metadata has too, the event that carries
\* them as a mapping normalises to the same merged metadata and the same extracted fields
\* as the event that carries them as a list of {key, value} items.
C15_ListEqualsMapping ==
    (Normed /\ raw_in \in MappingInputs) =>
        /\ ~norm_out.raised
        /\ ~NormRaises(InListForm(raw_in))
        /\ \A f \in CanonicalFields : norm_out.ev[f] = NormEvent(InListForm(raw_in))[f]

\* the exact metadata keys of the API and of the UI, each with the field it gives
ExactKeyFields ==
    { <<s_runCommand, "command">>, <<s_hardwareTierName, "hardwareTier">>,
      <<s_runId, "runId">>, <<s_executionStatus, "status">>,
      <<s_Run_Command, "command">>, <<s_Hardware_Tier, "hardwareTier">>, <<s_Run, "runId">>,
      <<s_Environment, "environmentName">>, <<s_Run_File, "runFile">>,
      <<s_Run_Origin, "runOrigin">> }

\* C16: exact-key extraction.  For a raw event whose metadata carries the camelCase API
\* keys runCommand, hardwareTierName, runId, executionStatus and a numeric runDurationSec,
\* or the title-case UI keys "Run Command", "Hardware Tier", "Run", "Environment",
\* "Run File", "Run Origin", the fields command, hardwareTier, runId, status, durationSec,
\* environmentName, runFile and runOrigin equal those metadata values (a str value
\* trimmed), whatever other keys of the family are present and whether or not the event
\* has a target.
C16_ExactKeyExtraction ==
    (Normed /\ raw_in \in (CamelInputs \cup TitleInputs)) =>
        /\ ~norm_out.raised
        /\ \A kf \in ExactKeyFields :
              HasKey(Get(raw_in, s_metadata).d, kf[1]) =>
                  norm_out.ev[kf[2]] = JStr(Strip(Get(Get(raw_in, s_metadata), kf[1]).s))
        /\ HasKey(Get(raw_in, s_metadata).d, s_runDurationSec) =>
              norm_out.ev.durationSec = Get(Get(raw_in, s_metadata), s_runDurationSec)

\* the event of the test (runCommand, hardwareTierName, runId, executionStatus,
\* runDurationSec 342.5, a Run target) was normalised into the five fields
C16_Witness ==
    /\ Normed
    /\ raw_in \in CamelInputs
    /\ HasKey(raw_in.d, s_targets)
    /\ norm_out.ev.command = JStr(v_cmd)
    /\ norm_out.ev.hardwareTier = JStr(v_Large)
    /\ norm_out.ev.runId = JStr(v_r9)
    /\ norm_out.ev.status = JStr(v_ok)
    /\ norm_out.ev.durationSec = v_duration

\* targets[0].entity of a raw event with a target
EntityOf(raw) == Get(Get(raw, s_targets).l[1], s_entity)

\* C17: identifier preference.  When an explicit nested id is present (actor.id,
\* targets[0].entity.id; for runId the entity id of a target whose entityType is "run" or
\* "job" in any casing, for jobId that of a target whose entityType is "job"), the
\* normalised actorId, targetId, runId and jobId equal it, also when metadata offers a
\* different id ("Run", runId, executionId, jobId, "Job").
C17_NestedIdPreferred ==
    (Normed /\ raw_in \in IdInputs) =>
        LET ety == Lower(Get(EntityOf(raw_in), s_entityType).s) IN
        /\ ~norm_out.raised
        /\ HasKey(raw_in.d, s_actor) => norm_out.ev.actorId = Get(Get(raw_in, s_actor), s_id)
        /\ norm_out.ev.targetId = Get(EntityOf(raw_in), s_id)
        /\ ety \in {s_run, s_job} => norm_out.ev.runId = Get(EntityOf(raw_in), s_id)
        /\ ety = s_job => norm_out.ev.jobId = Get(EntityOf(raw_in), s_id)

\* the spelled keys that no exact candidate reads, so that only the case-insensitive
\* lookup can resolve them
CiOnlyKeys ==
    SpelledKeys \ { s_Run_Command, s_runCommand, s_Hardware_Tier, s_Environment,
                    s_environmentName, s_environment }

\* C18: case-insensitive index, first occurrence wins.  When two metadata keys that only
\* the case-insensitive lookup resolves carry non-blank str values and normalise to the
\* same key, the lookup (seen through the canonical field it feeds) returns the trimmed
\* value of the key that comes first in the metadata.
C18_FirstOccurrenceWins ==
    (/\ Normed
     /\ raw_in \in DoubleKeyInputs
     /\ MetaItem(raw_in, 1)[1] \in CiOnlyKeys
     /\ MetaItem(raw_in, 2)[1] \in CiOnlyKeys
     /\ Strip(MetaItem(raw_in, 1)[2].s) # <<>>
     /\ Strip(MetaItem(raw_in, 2)[2].s) # <<>>) =>
        /\ ~norm_out.raised
        /\ norm_out.ev[FieldOfKey(MetaItem(raw_in, 1)[1])] = JStr(Strip(MetaItem(raw_in, 1)[2].s))

\* the first candidate that is a non-blank str, trimmed; null without one
RECURSIVE FirstYield(_)
FirstYield(cands) ==
    IF cands = <<>> THEN JNull
    ELSE IF Head(cands).t = "str" /\ Strip(Head(cands).s) # <<>> THEN JStr(Strip(Head(cands).s))
    ELSE FirstYield(Tail(cands))

\* the first candidate that is a number or a str that float() parses, as a float
RECURSIVE FirstNumberYield(_)
FirstNumberYield(cands) ==
    IF cands = <<>> THEN JNull
    ELSE IF Head(cands).t = "num" THEN Head(cands)
    ELSE IF Head(cands).t = "str" /\ FloatParses(Strip(Head(cands).s))
        THEN ParseFloat(Strip(Head(cands).s))
    ELSE FirstNumberYield(Tail(cands))

\* the inferred default of a field: the run type named by the event name, the workspace
\* name for the command
InferredDefault(raw, p) ==
    CASE p.field = "runType" /\ HasKey(raw.d, s_targets) -> JStr(s_Workspace)
      [] p.field = "runType" /\ ~HasKey(raw.d, s_targets) /\ HasKey(raw.d, s_action) -> JStr(s_Run)
      [] p.field = "command" /\ HasKey(raw.d, s_targets) -> JStr(v_ttl)
      [] OTHER -> JNull

\* C19: candidate priority.  For each extracted field the result is the first candidate,
\* in the order (a) the same-named field on the raw event, (b) an exact metadata key,
\* (c) the case-insensitive fallback, (d) the inferred default, that yields a non-empty
\* str (for durationSec: a number or a str that parses as a float, a str that does not
\* parse being skipped without error); null if none yields.
C19_CandidatePriority ==
    Normed =>
        /\ raw_in \in (PriorityInputs \cup DurationPriorityInputs) => ~norm_out.raised
        /\ \A p \in PriorityStrFields :
              (\E a \in {Absent, JStr(<<"A">>), JStr(BlankStr), JNum(5)},
                  b \in {Absent, JStr(<<"B">>), EmptyStr},
                  c \in {Absent, JStr(<<"C">>)},
                  ac \in {Absent, StartRun},
                  tg \in {Absent, WorkspaceTarget} :
                    raw_in = PriorityEvent(p, a, b, c, ac, tg)) =>
                  norm_out.ev[p.field] =
                      FirstYield(<< Get(raw_in, p.name),
                                    Get(Get(raw_in, s_metadata), p.exact),
                                    Get(Get(raw_in, s_metadata), p.ci),
                                    InferredDefault(raw_in, p) >>)
        /\ raw_in \in DurationPriorityInputs =>
              norm_out.ev.durationSec =
                  FirstNumberYield(<< Get(raw_in, s_durationSec),
                                      Get(Get(raw_in, s_metadata), s_runDurationSec),
                                      Get(Get(raw_in, s_metadata), s_runDurationSeconds) >>)

\* no event of the list carries a numeric timestamp (as Python counts numbers)
NoNumericTimestamp(L) == \A i \in 1..Len(L) : L[i].item.timestamp.t \notin {"num", "bool"}

\* C20: bulk stage skipped on failure.  When the Control-Center runs-utilization fetch
\* answers with a non-success status or raises a transport error, or when no event carries
\* a numeric timestamp, the bulk stage returns the events with every field of every event
\* unchanged, whatever the hardware-tier call returned.
C20_BulkSkippedOnFailure ==
    (/\ last_stage = "bulk"
     /\ \/ up.runs.kind \in {"status", "exc"}
        \/ NoNumericTimestamp(before)) =>
        all_events = before

\* the bulk stage ran with Control-Center enrichment configured, on events that carry a
\* timestamp and a blank hardwareTier, the hardware-tier call answering with a tier table
\* and the runs fetch failing
C20_Witness ==
    /\ last_stage = "bulk"
    /\ cfg.cc_enabled
    /\ cfg.domino_host
    /\ up.runs.kind \in {"status", "exc"}
    /\ up.hw.kind = "ok"
    /\ ~NoNumericTimestamp(before)
    /\ \E i \in 1..Len(before) : IsBlank(before[i].item.hardwareTier)
    /\ all_events = before

\* a timestamp in seconds: one greater than 1e12 is in milliseconds (whole days)
SecondsOf(t) == IF NumGT(t, JNum(MsThreshold)) THEN t.n \div 1000 ELSE t.n
\* the least and the greatest of the timestamps, each converted to seconds first
MinSeconds(T) == CHOOSE x \in {SecondsOf(t) : t \in T} : \A y \in T : x <= SecondsOf(y)
MaxSeconds(T) == CHOOSE x \in {SecondsOf(t) : t \in T} : \A y \in T : x >= SecondsOf(y)

\* C21: bulk date window units.  Whenever the bulk stage computes its date window, every
\* timestamp greater than 1e12 has been converted from milliseconds to seconds first: the
\* window is computed without error and runs from one day before the least converted
\* timestamp to one day after the greatest, also for a batch that mixes both units.
C21_WindowInSeconds ==
    (last_stage \in {"bulk", "raised"} /\ ~BulkSkipped(cfg, before)) =>
        LET T == Timestamps(before) IN
        /\ last_stage = "bulk"
        /\ ~WindowRaises(T)
        /\ StartDate(T) = MinSeconds(T) - 1
        /\ EndDate(T) = MaxSeconds(T) + 1

\* an id that may be looked up: a non-blank string other than "unknown" in any case
EligibleId(v) == IsStr(v) /\ Strip(v.s) # <<>> /\ Lower(Strip(v.s)) # s_unknown

\* the distinct trimmed eligible ids of the events' field, in first-seen order
RECURSIVE DistinctIds(_, _, _)
DistinctIds(L, field, acc) ==
    IF L = <<>> THEN acc
    ELSE LET v == Head(L).item[field] IN
         IF EligibleId(v) /\ ~\E i \in 1..Len(acc) : acc[i] = Strip(v.s)
         THEN DistinctIds(Tail(L), field, Append(acc, Strip(v.s)))
         ELSE DistinctIds(Tail(L), field, acc)

\* the ids of the calls of one kind, in the order issued
LookedUp(kind) ==
    LET IsKind(k) == k.kind = kind
        ks == SelectSeq(calls, IsKind)
    IN [i \in 1..Len(ks) |-> ks[i].id]

\* the first n elements of a sequence, all of them when it is shorter
FirstN(s, n) == SubSeq(s, 1, Min(Len(s), n))

\* C22: per-ID id collection.  The ids the Runs stage looks up (runId) and the ids the Jobs
\* stage looks up (jobId) are the first N distinct trimmed eligible ids of the events in
\* first-seen order, N being the configured maximum or the number of such ids when that is
\* smaller, so that N never exceeds the maximum and no id is looked up twice; with no
\* eligible id the stage issues no call and returns the events unchanged.
C22_IdCollection ==
    /\ (last_stage = "runs" /\ cfg.runs_enabled /\ cfg.domino_host) =>
          LET eligible == DistinctIds(before, "runId", <<>>) IN
          /\ LookedUp("run") = FirstN(eligible, cfg.runs_max)
          /\ eligible = <<>> => (calls = <<>> /\ all_events = before)
    /\ (last_stage = "jobs" /\ cfg.jobs_enabled /\ cfg.domino_host) =>
          LET eligible == DistinctIds(before, "jobId", <<>>) IN
          /\ LookedUp("job") = FirstN(eligible, cfg.jobs_max)
          /\ LookedUp("job_runtime") = LookedUp("job")
          /\ eligible = <<>> => (calls = <<>> /\ all_events = before)

\* the exchange answered with a mapping
AnsweredMapping(r) == r.kind = "ok" /\ IsDict(r.body)
\* the Runs stage looked the id up and the lookup answered with a mapping
ResolvedRun(id) ==
    (\E k \in 1..Len(calls) : calls[k].kind = "run" /\ calls[k].id = id)
    /\ AnsweredMapping(up.run[id])
\* the Jobs stage looked the id up and one of its two lookups answered with a mapping
ResolvedJob(id) ==
    (\E k \in 1..Len(calls) : calls[k].kind = "job" /\ calls[k].id = id)
    /\ (AnsweredMapping(up.job[<<id, 1>>]) \/ AnsweredMapping(up.job[<<id, 2>>]))
\* the value of a key in the merged record of a job: the runtime details overwrite the detail
MergedValue(id, key) ==
    IF AnsweredMapping(up.job[<<id, 2>>]) /\ HasKey(up.job[<<id, 2>>].body.d, key)
    THEN Get(up.job[<<id, 2>>].body, key)
    ELSE IF AnsweredMapping(up.job[<<id, 1>>]) THEN Get(up.job[<<id, 1>>].body, key)
    ELSE JNull
\* a blank field of the event has received the record's value
FilledFrom(b, a, field, value) == (IsBlank(b[field]) /\ ~IsEmptyValue(value)) => a[field] = value
\* the trimmed id of an event's field, empty when it is not a string
TrimmedId(v) == IF IsStr(v) THEN Strip(v.s) ELSE <<>>
\* the first ids of the collection are looked up, whatever the lookups answer
LookedUpAtLeast(kind, eligible, max) ==
    /\ Len(LookedUp(kind)) >= Min(Len(eligible), max)
    /\ \A k \in 1..Min(Len(eligible), max) : LookedUp(kind)[k] = eligible[k]

\* C23: per-ID lookup failures are isolated.  In the Runs and the Jobs stage a lookup that
\* fails (non-success status, exception, body that is not a mapping) does not stop the
\* lookups of the remaining ids and does not fail the stage: every event whose id has no
\* resolved record keeps all its fields, and every event whose id did resolve has its blank
\* fields filled from the record.
C23_LookupFailuresIsolated ==
    /\ (last_stage = "runs" /\ cfg.runs_enabled /\ cfg.domino_host) =>
          /\ LookedUpAtLeast("run", DistinctIds(before, "runId", <<>>), cfg.runs_max)
          /\ \A i \in 1..Len(before) :
                LET b == before[i].item
                    a == all_events[i].item
                    id == TrimmedId(b.runId)
                IN IF id # <<>> /\ ResolvedRun(id)
                   THEN /\ FilledFrom(b, a, "command", Get(up.run[id].body, s_command))
                        /\ FilledFrom(b, a, "status", Get(up.run[id].body, s_status))
                        /\ FilledFrom(b, a, "actorName", Get(up.run[id].body, s_userName))
                        /\ FilledFrom(b, a, "targetName", Get(up.run[id].body, s_title))
                   ELSE a = b
    /\ ~(last_stage = "raised" /\ \E k \in 1..Len(calls) : calls[k].kind \in {"run", "job"})
    /\ (last_stage = "jobs" /\ cfg.jobs_enabled /\ cfg.domino_host) =>
          /\ LookedUpAtLeast("job", DistinctIds(before, "jobId", <<>>), cfg.jobs_max)
          /\ \A i \in 1..Len(before) :
                LET b == before[i].item
                    a == all_events[i].item
                    id == TrimmedId(b.jobId)
                IN IF id # <<>> /\ ResolvedJob(id)
                   THEN /\ FilledFrom(b, a, "withinProjectName", MergedValue(id, s_projectName))
                        /\ FilledFrom(b, a, "targetName", MergedValue(id, s_title))
                        /\ FilledFrom(b, a, "status", MergedValue(id, s_status))
                   ELSE a = b

\* the Runs stage looked up two ids, the lookup of the first failed and the second resolved:
\* the event of the first id is unchanged and the event of the second has its command filled
C23_Witness ==
    /\ last_stage = "runs"
    /\ Len(LookedUp("run")) = 2
    /\ ~AnsweredMapping(up.run[LookedUp("run")[1]])
    /\ AnsweredMapping(up.run[LookedUp("run")[2]])
    /\ \E i, j \in 1..Len(before) :
          /\ TrimmedId(before[i].item.runId) = LookedUp("run")[1]
          /\ all_events[i] = before[i]
          /\ TrimmedId(before[j].item.runId) = LookedUp("run")[2]
          /\ IsBlank(before[j].item.command)
          /\ all_events[j].item.command = Get(up.run[LookedUp("run")[2]].body, s_command)

\* C24: Jobs duration source.  In the Jobs stage an event with blank durationSec whose job
\* record carries the direct duration field runDurationInSeconds has durationSec filled from
\* that field; the duration derived from stageTime is not used when the direct field is
\* present.
C24_DirectDurationFirst ==
    (last_stage = "jobs" /\ cfg.jobs_enabled /\ cfg.domino_host) =>
        \A i \in 1..Len(before) :
            LET b == before[i].item
                id == TrimmedId(b.jobId)
            IN (/\ id # <<>>
                /\ ResolvedJob(id)
                /\ IsBlank(b.durationSec)
                /\ IsNumber(MergedValue(id, s_runDurationInSeconds))) =>
                   all_events[i].item.durationSec = MergedValue(id, s_runDurationInSeconds)

\* the position of a kind of upstream call in the order of the stages
StageRank(kind) ==
    CASE kind = "discover" -> 1
      [] kind = "page" -> 2
      [] kind = "hardware_tiers" -> 3
      [] kind = "utilization" -> 4
      [] kind = "run" -> 5
      [] kind \in {"job", "job_runtime"} -> 6
\* the kinds of call issued by the enrichment stages
EnrichmentKinds == {"hardware_tiers", "utilization", "run", "job", "job_runtime"}
\* the steps of a request that precede enrichment
PrimarySteps == {"auth", "discover", "page", "parse", "normalize"}

\* C25: stage ordering within one request.  The upstream calls of a request occur in the
\* order path discovery and first page, remaining pages, hardware-tier table, runs
\* utilization, per-run lookups, per-job lookups, the detail of a job directly before its
\* runtimeExecutionDetails; no call of an earlier stage follows a call of a later one, and a
\* request whose audit query fails issues no enrichment call.
C25_StageOrder ==
    /\ \A i, j \in 1..Len(calls) :
          i < j => StageRank(calls[i].kind) <= StageRank(calls[j].kind)
    /\ \A i \in 1..Len(calls) :
          /\ calls[i].kind = "job" =>
                (i < Len(calls) /\ calls[i + 1].kind = "job_runtime" /\ calls[i + 1].id = calls[i].id)
          /\ calls[i].kind = "job_runtime" =>
                (i > 1 /\ calls[i - 1].kind = "job" /\ calls[i - 1].id = calls[i].id)
          /\ calls[i].kind \in {"hardware_tiers", "utilization"} =>
                \A j \in 1..Len(calls) : calls[j].kind = calls[i].kind => j = i
    /\ (response.kind = "error" /\ response.at \in PrimarySteps) =>
          \A i \in 1..Len(calls) : calls[i].kind \notin EnrichmentKinds

\* a request that was answered with events after calls of every kind
C25_Witness ==
    /\ pc = "done"
    /\ response.kind = "events"
    /\ \A k \in {"discover", "page"} \cup EnrichmentKinds :
          \E i \in 1..Len(calls) : calls[i].kind = k

\* the text of a body as the sanitiser reads it: the body itself when it is a str, its
\* printed form otherwise, without the surrounding blanks
TextOf(body) == Strip(BodyText(body))

\* the text looks like HTML: it starts with "<", has "<!doctype" within its first 200
\* characters, or contains "</html>", in any case of the letters
LooksLikeHtml(text) ==
    \/ (text # <<>> /\ Head(text) = "<")
    \/ \E i \in 1..(SniffLen - Len(s_doctype) + 1) :
          i + Len(s_doctype) - 1 <= Len(text)
          /\ Lower(SubSeq(text, i, i + Len(s_doctype) - 1)) = s_doctype
    \/ \E i \in 1..Len(text) :
          i + Len(s_html_end) - 1 <= Len(text)
          /\ Lower(SubSeq(text, i, i + Len(s_html_end) - 1)) = s_html_end

\* C26: error sanitization.  For every status code and body the sanitiser returns a
\* non-empty message.  When the body (read as its text without the surrounding blanks)
\* looks like HTML, the message is the fixed generic text for the status and contains none
\* of the body; otherwise it holds at most the first 500 characters of the body, followed
\* by "..." when the body is longer, and a body without text gives the default message.
C26_ErrorSanitized ==
    pc = "sanitized" =>
        LET text == IF IsNull(raw_in) THEN <<>> ELSE TextOf(raw_in)
            message == last_err.s
        IN /\ IsStr(last_err)
           /\ message # <<>>
           /\ IF LooksLikeHtml(text)
              THEN /\ message = HtmlMessage(last_status)
                   /\ ~Contains(text, message)
              ELSE IF Len(text) > TruncateLen
              THEN /\ message = SubSeq(text, 1, TruncateLen) \o s_ellipsis
                   /\ Len(message) = TruncateLen + 3
              ELSE IF text # <<>> THEN message = text
              ELSE message = DefaultMessage(last_status)

\* the sanitiser has returned the generic text for a body of more than 200 characters whose
\* doctype lies within the first 200, the body neither starting with "<" nor closing an html tag
C26_Witness ==
    /\ pc = "sanitized"
    /\ IsStr(raw_in)
    /\ Len(TextOf(raw_in)) > SniffLen
    /\ Head(TextOf(raw_in)) # "<"
    /\ LooksLikeHtml(TextOf(raw_in))
    /\ ~Contains(s_html_end, Lower(TextOf(raw_in)))
    /\ last_err = JStr(HtmlMessage(last_status))

\* C27: result size.  For every requested limit L, clamped to [0, AUDIT_PAGINATION_CAP],
\* and an upstream that returns no more events than a page request asks for, the array
\* returned by GET /api/audit holds at most L events, also when L is not a multiple of the
\* page cap.
C27_ResultWithinLimit ==
    response.kind = "events" => ListLen(response.events) <= RequestedLimit(cfg, req)

\* this step issues a page request of the pagination loop
PageRequested == Len(calls') = Len(calls) + 1 /\ calls'[Len(calls')].kind = "page"

\* the request before was answered with a success and with no fewer records than the page cap
PageBeforeWasFull == calls[Len(calls)].status = 200 /\ raw_len >= cfg.max_limit

\* C28: pagination termination.  For every requested limit, page cap and safety cap and
\* every upstream behaviour the pagination loop issues finitely many page requests and the
\* request eventually returns or reaches its last step, the Jobs stage, which returns; no
\* page request follows a page that was answered with fewer records than the page cap or
\* with a non-success status.
C28_PaginationTerminates ==
    /\ <>(pc \in {"jobs", "done"})
    /\ [][PageRequested => PageBeforeWasFull]_vars

\* the requests that fetched a page of the result: the request that found the working path,
\* then the requests of the pagination loop
FetchedPages ==
    SelectSeq(calls, LAMBDA k : k.kind = "page" \/ (k.kind = "discover" /\ k.status = 200))

\* C29 as stated: whatever offset and limit the caller supplies, the pages are requested at
\* strictly increasing offsets, the first at the caller's offset and each of the others
\* where the page before ended, so that no upstream record is requested twice or skipped.
C29_ContiguousPages ==
    /\ FetchedPages # <<>> => FetchedPages[1].offset = req.offset
    /\ \A k \in 2..Len(FetchedPages) :
        /\ FetchedPages[k].offset > FetchedPages[k - 1].offset
        /\ FetchedPages[k].offset = FetchedPages[k - 1].offset + FetchedPages[k - 1].limit

\* the fields each stage may fill
BulkFillSet ==
    {"durationSec", "hardwareTier", "computeTier", "withinProjectName", "actorName", "runType"}
PerIdFillSet ==
    {"command", "status", "durationSec", "hardwareTier", "withinProjectName", "actorName",
     "targetName", "environmentName"}
FillSetOf(stage) == IF stage = "bulk" THEN BulkFillSet ELSE PerIdFillSet

\* the fields that identify an event and what it refers to
IdentityFields == {"id", "event", "timestamp", "runId", "jobId", "targetId", "actorId"}

\* the stage applied last is disabled or has no DOMINO_API_HOST
StageOff ==
    \/ ~cfg.domino_host
    \/ last_stage = "bulk" /\ ~cfg.cc_enabled
    \/ last_stage = "runs" /\ ~cfg.runs_enabled
    \/ last_stage = "jobs" /\ ~cfg.jobs_enabled

\* C30: enrichment frame.  Whatever stage returned last (bulk, Runs or Jobs), under
\* whatever upstream responses, the list holds the same events in the same order and
\* number, every field outside the fill set of the stage has the value it had before, the
\* identifying fields id, event, timestamp, runId, jobId, targetId and actorId among them,
\* and a stage that is disabled or has no DOMINO_API_HOST has issued no upstream call and
\* changed nothing.
C30_EnrichmentFrame ==
    StageApplied =>
        /\ Len(all_events) = Len(before)
        /\ \A i \in 1..Len(before) :
            /\ all_events[i].n = before[i].n
            /\ DOMAIN all_events[i].item = DOMAIN before[i].item
            /\ \A f \in (DOMAIN before[i].item) \ FillSetOf(last_stage) :
                all_events[i].item[f] = before[i].item[f]
            /\ \A f \in IdentityFields : all_events[i].item[f] = before[i].item[f]
        /\ StageOff => (calls = <<>> /\ all_events = before)

\* the Runs stage filled the hardwareTier of an event from the run it looked up and left
\* the blank computeTier and runType of the event alone
C30_Witness ==
    /\ last_stage = "runs"
    /\ calls # <<>>
    /\ \E i \in 1..Len(before) :
        /\ all_events[i].item.hardwareTier # before[i].item.hardwareTier
        /\ IsBlank(before[i].item.computeTier)
        /\ IsBlank(before[i].item.runType)
====
